---------------------------- MODULE Spec2Model ----------------------------
(***************************************************************************)
(* ProofPix: the concurrent vector-index manager (package index) and the   *)
(* asset fingerprinting pipeline of cmd/fingerprint-worker.                *)
(*                                                                         *)
(* Two specifications share the manager's operations:                      *)
(*   Spec        clients call Load, Build, Save, HasIndex, Search and Add  *)
(*               on one IndexManager in any order and interleaving;        *)
(*   SpecWorker  the worker program: main's startup lifecycle followed by  *)
(*               concurrent processImage runs.                             *)
(***************************************************************************)
EXTENDS Integers, Sequences, FiniteSets, TLC

(***************************************************************************)
(* Bounds of the model.                                                    *)
(***************************************************************************)
\* calls the clients of Spec may start, all together
MaxCalls == 3

(***************************************************************************)
(* Vectors.  A []float32 (or a Firestore array) is kept run-length         *)
(* encoded: a sequence of runs [n |-> length, v |-> value], no run empty   *)
(* and no two neighbouring runs of one value, so that equal vectors are    *)
(* equal sequences.  Component values are small integers, which float32    *)
(* and float64 both represent exactly.                                     *)
(***************************************************************************)
\* the dimension the index is created with
Dim == 1408

Vec(n, v) == IF n = 0 THEN <<>> ELSE <<[n |-> n, v |-> v]>>

RECURSIVE VLen(_)
VLen(x) == IF x = <<>> THEN 0 ELSE Head(x).n + VLen(Tail(x))

\* x followed by y
Cat(x, y) ==
    IF x = <<>> THEN y
    ELSE IF y = <<>> THEN x
    ELSE IF x[Len(x)].v = y[1].v
         THEN SubSeq(x, 1, Len(x) - 1)
              \o <<[n |-> x[Len(x)].n + y[1].n, v |-> y[1].v]>>
              \o Tail(y)
         ELSE x \o y

\* x[:n] (all of x when it is shorter)
RECURSIVE Take(_, _)
Take(x, n) ==
    IF n <= 0 \/ x = <<>> THEN <<>>
    ELSE IF Head(x).n <= n
         THEN <<Head(x)>> \o Take(Tail(x), n - Head(x).n)
         ELSE <<[n |-> n, v |-> Head(x).v]>>

\* x[n:] (empty when x is shorter)
RECURSIVE Drop(_, _)
Drop(x, n) ==
    IF x = <<>> THEN <<>>
    ELSE IF n <= 0 THEN x
    ELSE IF Head(x).n <= n
         THEN Drop(Tail(x), n - Head(x).n)
         ELSE <<[n |-> Head(x).n - n, v |-> Head(x).v]>> \o Tail(x)

\* squared Euclidean distance of two vectors of one length
RECURSIVE SqDist(_, _)
SqDist(x, y) ==
    IF x = <<>> \/ y = <<>> THEN 0
    ELSE LET m == IF Head(x).n <= Head(y).n THEN Head(x).n ELSE Head(y).n
             d == Head(x).v - Head(y).v
         IN  m * d * d + SqDist(Drop(x, m), Drop(y, m))

(***************************************************************************)
(* The nearest-neighbour library (go-faiss IndexFlatL2) as the manager     *)
(* uses it.  An index object is the sequence of its stored vectors, each   *)
(* of Dim components; a vector's label is its position, counted from 0.    *)
(***************************************************************************)
\* faiss.NewIndexFlatL2(1408)
NewIndexFlatL2 == <<>>

Ntotal(ix) == Len(ix)

\* index.Add(x): the library takes len(x) / d whole vectors from x, which
\* is none of a shorter x, and several of a longer one; it reports no error.
FaissAdd(ix, x) ==
    ix \o [i \in 1..(VLen(x) \div Dim) |-> Take(Drop(x, (i - 1) * Dim), Dim)]

\* the distance the library leaves in a result slot it found no vector for
\* (with label -1); stands for FLT_MAX
NoDist == 0 - 1
NoLabel == 0 - 1

\* the labels of S by ascending distance to q, nearer label first on a tie,
\* cut or padded to k slots
RECURSIVE Nearest(_, _, _, _)
Nearest(ix, q, S, k) ==
    IF k <= 0 THEN <<>>
    ELSE IF S = {} THEN <<NoLabel>> \o Nearest(ix, q, S, k - 1)
    ELSE LET best == CHOOSE i \in S : \A j \in S :
                        \/ SqDist(ix[i + 1], q) < SqDist(ix[j + 1], q)
                        \/ SqDist(ix[i + 1], q) = SqDist(ix[j + 1], q) /\ i <= j
         IN  <<best>> \o Nearest(ix, q, S \ {best}, k - 1)

RECURSIVE FaissQueries(_, _, _, _)
FaissQueries(ix, x, n, k) ==
    IF n = 0 THEN <<>>
    ELSE Nearest(ix, Take(x, Dim), 0..(Ntotal(ix) - 1), k)
         \o FaissQueries(ix, Drop(x, Dim), n - 1, k)

\* index.Search(x, k): len(x) / d queries of k slots each.  With no query or
\* k = 0 the binding takes the address of the first slot of an empty slice
\* and the goroutine panics.
FaissSearch(ix, x, k) ==
    LET n == VLen(x) \div Dim
        labels == FaissQueries(ix, x, n, k)
        q(i) == Take(Drop(x, ((i - 1) \div k) * Dim), Dim)
    IN  IF n * k <= 0
        THEN [panic |-> TRUE, dists |-> <<>>, labels |-> <<>>]
        ELSE [panic |-> FALSE,
              dists |-> [i \in 1..Len(labels) |->
                            IF labels[i] = NoLabel THEN NoDist
                            ELSE SqDist(ix[labels[i] + 1], q(i))],
              labels |-> labels]

RECURSIVE Flatten(_)
Flatten(rows) == IF rows = <<>> THEN <<>> ELSE Cat(Head(rows), Flatten(Tail(rows)))

\* faiss.WriteIndex: the file holds the dimension, the count and the stored
\* vectors one after another; nothing of the manager's id-map.  The count
\* is written first, the vectors after it.
WriteIndexAs(ntotal, ix) == [d |-> Dim, ntotal |-> ntotal, codes |-> Flatten(ix)]

\* the file of an index nobody changes meanwhile
WriteIndex(ix) == WriteIndexAs(Ntotal(ix), ix)

\* faiss.ReadIndex accepts a file whose vectors are as many as its count
Readable(blob) == VLen(blob.codes) = blob.ntotal * blob.d

\* faiss.ReadIndex of such a file
ReadIndex(blob) ==
    [i \in 1..blob.ntotal |-> Take(Drop(blob.codes, (i - 1) * blob.d), blob.d)]


(***************************************************************************)
(* State.                                                                  *)
(***************************************************************************)
VARIABLES
    index,          \* m.index: <<>> when nil, else <<the index object>>
    idMap,          \* m.idMap: label -> asset id (a nil map reads as empty)
    mu,             \* m.mu: [w |-> the writer or "none", r |-> the readers]
    gcs,            \* the snapshot object in the bucket: <<>> or <<file>>
    docs,           \* the assets collection: document id -> <<>> or <<data>>
    pc,             \* where each goroutine stands
    loc,            \* each goroutine's locals inside a manager call
    ret,            \* what each goroutine's last manager call returned
    calls,          \* calls the clients have started
    addLog,         \* history: the ids added on this manager, in write-lock order
    allDim,         \* history: every vector so added had Dim components
    installs,       \* history: index installations on this manager (0, 1, 2 = more)
    emptyAtInstall, \* history: the first installed index held no vector
    savedFrom       \* history: the manager's content when the snapshot was written

Procs == {"p1", "p2"}

Nil == "nil"
ErrNoIndexToSave == "no index to save: index is nil"
ErrNotInitialized == "index is not initialized"

NoLoc == [id |-> "", vec |-> <<>>, k |-> 0, newID |-> 0,
          live |-> FALSE, obj |-> <<>>, ids |-> <<>>, head |-> <<>>]
NoRet == [op |-> "none"]

(***************************************************************************)
(* sync.RWMutex: Lock waits until no reader and no writer holds it; RLock  *)
(* waits until no writer holds it.                                         *)
(***************************************************************************)
CanLockMissing == TRUE
CanRLockMissing == TRUE
CanLock == mu.w = "none" /\ mu.r = {}
CanRLock == mu.w = "none"
Locked(p) == [mu EXCEPT !.w = p]
RLocked(p) == [mu EXCEPT !.r = @ \cup {p}]
Unlocked == [mu EXCEPT !.w = "none"]
RUnlocked(p) == [mu EXCEPT !.r = @ \ {p}]

(***************************************************************************)
(* Firestore documents.  A field is <<>> when absent, else <<value>>; an   *)
(* embedding value is [arr |-> it is an array, elems |-> its elements],    *)
(* each element <<"f", x>> (the float64 x) or <<"s", 0>> (not a float64);  *)
(* an assetId value is [str |-> it is a string, s |-> the string].         *)
(***************************************************************************)
\* Documents(ctx) yields the documents in the order of their ids
DocOrder == <<"a", "b">>

F64(n, x) == <<[n |-> n, v |-> <<"f", x>>]>>

\* lines 113-118: a float64 element is narrowed to float32, any other
\* element leaves the zero the slice was made with
RECURSIVE EmbeddingVector(_)
EmbeddingVector(elems) ==
    IF elems = <<>> THEN <<>>
    ELSE Cat(Vec(Head(elems).n,
                 IF Head(elems).v[1] = "f" THEN Head(elems).v[2] ELSE 0),
             EmbeddingVector(Tail(elems)))

\* lines 121-126
DocAssetIDIgnoresField(id, data) == id
DocAssetID(id, data) ==
    IF data.assetId # <<>> /\ data.assetId[1].str THEN data.assetId[1].s ELSE id

\* lines 97-133: the vectors and asset ids of the documents that hold an
\* embedding array, in scan order
RECURSIVE ScanDocs(_, _)
ScanDocs(order, coll) ==
    IF order = <<>> THEN [vectors |-> <<>>, assetIDs |-> <<>>]
    ELSE LET id == Head(order)
             rest == ScanDocs(Tail(order), coll)
         IN  IF coll[id] # <<>> /\ coll[id][1].embedding # <<>>
                /\ coll[id][1].embedding[1].arr
             THEN [vectors |-> <<EmbeddingVector(coll[id][1].embedding[1].elems)>>
                               \o rest.vectors,
                   assetIDs |-> <<DocAssetID(id, coll[id][1])>> \o rest.assetIDs]
             ELSE rest

\* line 146: copy into a zeroed slot of 1408 floats
CopyIntoSlot(v) == Cat(Take(v, Dim), Vec(Dim - VLen(Take(v, Dim)), 0))

\* lines 136-153
BuiltIndex(vectors) ==
    IF Len(vectors) > 0
    THEN FaissAdd(NewIndexFlatL2,
                  Flatten([i \in 1..Len(vectors) |-> CopyIntoSlot(vectors[i])]))
    ELSE NewIndexFlatL2

\* lines 163-166
BuiltIdMap(assetIDs) == [i \in 0..(Len(assetIDs) - 1) |-> assetIDs[i + 1]]

(***************************************************************************)
(* History bookkeeping shared by the installing operations.                *)
(***************************************************************************)
\* a Save that has read m.index keeps the object it read: once another
\* object is installed, that one no longer changes
KeepReadObjects ==
    [q \in DOMAIN loc |->
        IF pc[q] \in {"save_io", "save_data"} /\ loc[q].live
        THEN [loc[q] EXCEPT !.live = FALSE, !.obj = index[1]]
        ELSE loc[q]]

Installed(ix) ==
    /\ installs' = IF installs = 0 THEN 1 ELSE 2
    /\ emptyAtInstall' = IF installs = 0 THEN Ntotal(ix) = 0 ELSE emptyAtInstall

(***************************************************************************)
(* The operations of IndexManager.  Each is cut where it takes or gives up *)
(* m.mu or waits for storage; `from` is where the caller stands before the *)
(* call and `to` where it stands after it.                                 *)
(***************************************************************************)
hist == <<addLog, allDim, installs, emptyAtInstall, savedFrom>>

Goto(p, to) == pc' = [pc EXCEPT ![p] = to]
Return(p, r) == ret' = [ret EXCEPT ![p] = r]
SetLoc(p, l) == loc' = [loc EXCEPT ![p] = l]

\* how Search finds the index: "nil", "empty" or "filled"
IndexState == IF index = <<>> THEN "nil"
              ELSE IF Ntotal(index[1]) = 0 THEN "empty" ELSE "filled"

(* ---- Add, lines 278-304 ---- *)

\* line 289
NewIDOfLast(ix) == IF Ntotal(ix) = 0 THEN 0 ELSE Ntotal(ix) - 1
NewID(ix) == Ntotal(ix)

\* the call: the goroutine reaches m.mu.Lock() of line 280
AddCall(p, from, id, vec) ==
    /\ pc[p] = from
    /\ SetLoc(p, [NoLoc EXCEPT !.id = id, !.vec = vec])
    /\ Goto(p, "add_wait")
    /\ UNCHANGED <<index, idMap, mu, gcs, docs, ret, hist>>

\* line 285
AddNoIndexSilent == [op |-> "Add", err |-> Nil]
AddNoIndexResult == [op |-> "Add", err |-> ErrNotInitialized]

\* lines 280-286: the lock is taken and no index is installed
AddNoIndex(p, to) ==
    /\ pc[p] = "add_wait"
    /\ CanLock
    /\ index = <<>>
    /\ Return(p, AddNoIndexResult)
    /\ SetLoc(p, NoLoc)
    /\ Goto(p, to)
    /\ UNCHANGED <<index, idMap, mu, gcs, docs, hist>>

\* lines 280-289: the lock is taken, an index is installed, newID is read
AddEnter(p) ==
    /\ pc[p] = "add_wait"
    /\ CanLock
    /\ index # <<>>
    /\ mu' = Locked(p)
    /\ SetLoc(p, [loc[p] EXCEPT !.newID = NewID(index[1])])
    /\ Goto(p, "add_cs")
    /\ addLog' = Append(addLog, loc[p].id)
    /\ allDim' = (allDim /\ VLen(loc[p].vec) = Dim)
    /\ UNCHANGED <<index, idMap, gcs, docs, ret, installs, emptyAtInstall, savedFrom>>

\* lines 292-303 and the deferred Unlock
AddExit(p, to) ==
    /\ pc[p] = "add_cs"
    /\ index' = <<FaissAdd(index[1], loc[p].vec)>>
    /\ idMap' = (loc[p].newID :> loc[p].id) @@ idMap
    /\ mu' = Unlocked
    /\ Return(p, [op |-> "Add", err |-> Nil])
    /\ SetLoc(p, NoLoc)
    /\ Goto(p, to)
    /\ UNCHANGED <<gcs, docs, hist>>

\* lines 292-295: m.index.Add returns an error; nothing is recorded
ErrFaiss == "faiss error"

AddFails(p, to) ==
    /\ pc[p] = "add_cs"
    /\ mu' = Unlocked
    /\ Return(p, [op |-> "Add", err |-> ErrFaiss])
    /\ SetLoc(p, NoLoc)
    /\ Goto(p, to)
    /\ addLog' = SubSeq(addLog, 1, Len(addLog) - 1)
    /\ UNCHANGED <<index, idMap, gcs, docs, allDim, installs, emptyAtInstall,
                   savedFrom>>

(* ---- Search, lines 238-275 ---- *)

\* lines 260-271: a label the id-map does not hold gives ""
AssetIDs(labels, map) ==
    [i \in 1..Len(labels) |->
        IF labels[i] \in DOMAIN map THEN map[labels[i]] ELSE ""]

SearchFaiss(ix, map, x, k) ==
    LET r == FaissSearch(ix, x, k)
    IN  [panic |-> r.panic, err |-> Nil, dists |-> r.dists,
         ids |-> AssetIDs(r.labels, map)]

SearchOutcomeUnguarded(ixo, map, x, k) ==
    IF ixo = <<>>
    THEN [panic |-> FALSE, err |-> Nil, dists |-> <<>>, ids |-> <<>>]
    ELSE SearchFaiss(ixo[1], map, x, k)

\* lines 244-274
SearchOutcome(ixo, map, x, k) ==
    IF ixo = <<>>
    THEN [panic |-> FALSE, err |-> Nil, dists |-> <<>>, ids |-> <<>>]
    ELSE IF Ntotal(ixo[1]) = 0
    THEN [panic |-> FALSE, err |-> Nil, dists |-> <<>>, ids |-> <<>>]
    ELSE SearchFaiss(ixo[1], map, x, k)

\* the call: the goroutine reaches m.mu.RLock() of line 240
SearchCall(p, from, vec, k) ==
    /\ pc[p] = from
    /\ SetLoc(p, [NoLoc EXCEPT !.vec = vec, !.k = k])
    /\ Goto(p, "search_wait")
    /\ UNCHANGED <<index, idMap, mu, gcs, docs, ret, hist>>

\* line 240
SearchEnter(p) ==
    /\ pc[p] = "search_wait"
    /\ CanRLock
    /\ mu' = RLocked(p)
    /\ Goto(p, "search_cs")
    /\ UNCHANGED <<index, idMap, gcs, docs, loc, ret, hist>>

\* lines 244-274 and the deferred RUnlock
SearchExit(p, to) ==
    /\ pc[p] = "search_cs"
    /\ LET r == SearchOutcome(index, idMap, loc[p].vec, loc[p].k)
       IN  Return(p, [op |-> "Search", err |-> r.err, panic |-> r.panic,
                      dists |-> r.dists, ids |-> r.ids])
    /\ mu' = RUnlocked(p)
    /\ SetLoc(p, NoLoc)
    /\ Goto(p, to)
    /\ UNCHANGED <<index, idMap, gcs, docs, hist>>

\* lines 254-257: m.index.Search returns an error
SearchFails(p, to) ==
    /\ pc[p] = "search_cs"
    /\ index # <<>> /\ Ntotal(index[1]) > 0
    /\ Return(p, [op |-> "Search", err |-> ErrFaiss, panic |-> FALSE,
                  dists |-> <<>>, ids |-> <<>>])
    /\ mu' = RUnlocked(p)
    /\ SetLoc(p, NoLoc)
    /\ Goto(p, to)
    /\ UNCHANGED <<index, idMap, gcs, docs, hist>>

(* ---- HasIndex, lines 231-235 ---- *)

HasIndexCall(p, from) ==
    /\ pc[p] = from
    /\ Goto(p, "has_wait")
    /\ UNCHANGED <<index, idMap, mu, gcs, docs, loc, ret, hist>>

HasIndexEnter(p) ==
    /\ pc[p] = "has_wait"
    /\ CanRLock
    /\ mu' = RLocked(p)
    /\ Goto(p, "has_cs")
    /\ UNCHANGED <<index, idMap, gcs, docs, loc, ret, hist>>

HasIndexExit(p, to) ==
    /\ pc[p] = "has_cs"
    /\ Return(p, [op |-> "HasIndex", val |-> index # <<>>])
    /\ mu' = RUnlocked(p)
    /\ Goto(p, to)
    /\ UNCHANGED <<index, idMap, gcs, docs, loc, hist>>

(* ---- Save, lines 172-228 ---- *)

\* what may go wrong: the temporary file (lines 183-204), the upload
\* (lines 207-227)
SaveFaults == {"none", "tempfile", "upload"}

SaveCall(p, from) ==
    /\ pc[p] = from
    /\ Goto(p, "save_wait")
    /\ UNCHANGED <<index, idMap, mu, gcs, docs, loc, ret, hist>>

\* line 174
SaveEnter(p) ==
    /\ pc[p] = "save_wait"
    /\ CanRLock
    /\ mu' = RLocked(p)
    /\ Goto(p, "save_cs")
    /\ UNCHANGED <<index, idMap, gcs, docs, loc, ret, hist>>

\* lines 175-180: nil gives the error; otherwise the object is remembered
SaveCheck(p, to) ==
    /\ pc[p] = "save_cs"
    /\ mu' = RUnlocked(p)
    /\ IF index = <<>>
       THEN /\ Return(p, [op |-> "Save", err |-> ErrNoIndexToSave])
            /\ Goto(p, to)
            /\ UNCHANGED loc
       ELSE /\ SetLoc(p, [NoLoc EXCEPT !.live = TRUE])
            /\ Goto(p, "save_io")
            /\ UNCHANGED ret
    /\ UNCHANGED <<index, idMap, gcs, docs, hist>>

\* the object a Save remembered, as it is now
ReadObject(p) == IF loc[p].live THEN index[1] ELSE loc[p].obj

\* line 194: faiss.WriteIndex starts on the object, m.mu not held: the
\* count goes to the file
SaveHeader(p) ==
    /\ pc[p] = "save_io"
    /\ SetLoc(p, [loc[p] EXCEPT !.head = <<Ntotal(ReadObject(p))>>])
    /\ Goto(p, "save_data")
    /\ UNCHANGED <<index, idMap, mu, gcs, docs, ret, hist>>

\* the count the file carries: the one written first
HeaderWritten(p) == loc[p].head[1]

\* lines 183-227: the temporary file, the vectors WriteIndex writes after
\* the count, and the upload; the object appears in the bucket when the
\* writer is closed
SaveWrite(p, to, fault) ==
    /\ pc[p] = "save_data"
    /\ IF fault = "none"
       THEN /\ gcs' = <<WriteIndexAs(HeaderWritten(p), ReadObject(p))>>
            /\ savedFrom' = [rows |-> ReadObject(p), idMap |-> idMap]
       ELSE UNCHANGED <<gcs, savedFrom>>
    /\ Return(p, [op |-> "Save", err |-> IF fault = "none" THEN Nil ELSE fault])
    /\ SetLoc(p, NoLoc)
    /\ Goto(p, to)
    /\ UNCHANGED <<index, idMap, mu, docs, addLog, allDim, installs, emptyAtInstall>>

(* ---- Load, lines 25-77 ---- *)

\* what may go wrong: the storage client or reader (lines 27-45), the
\* temporary file (lines 49-60), faiss.ReadIndex (lines 66-69)
LoadFaults == {"none", "storage", "tempfile", "decode"}

\* lines 27-69: what the download ends in: "absent" (ErrObjectNotExist),
\* a failure, or "ok"
LoadAbsentIsError(fault, obj) ==
    IF fault = "storage" THEN fault
    ELSE IF obj = <<>> THEN "storage: object doesn't exist"
    ELSE IF fault # "none" THEN fault
    ELSE "ok"
LoadResult(fault, obj) ==
    IF fault = "storage" THEN fault
    ELSE IF obj = <<>> THEN "absent"
    ELSE IF fault # "none" THEN fault
    ELSE IF ~Readable(obj[1]) THEN "decode"
    ELSE "ok"

LoadCall(p, from) ==
    /\ pc[p] = from
    /\ Goto(p, "load_io")
    /\ UNCHANGED <<index, idMap, mu, gcs, docs, loc, ret, hist>>

LoadFetch(p, to, fault) ==
    /\ pc[p] = "load_io"
    /\ LET r == LoadResult(fault, gcs)
       IN  IF r = "ok"
           THEN /\ SetLoc(p, [NoLoc EXCEPT !.obj = ReadIndex(gcs[1])])
                /\ Goto(p, "load_wait")
                /\ UNCHANGED ret
           ELSE /\ Return(p, [op |-> "Load", err |-> IF r = "absent" THEN Nil ELSE r])
                /\ Goto(p, to)
                /\ UNCHANGED loc
    /\ UNCHANGED <<index, idMap, mu, gcs, docs, hist>>

\* line 72
LoadLock(p) ==
    /\ pc[p] = "load_wait"
    /\ CanLock
    /\ mu' = Locked(p)
    /\ Goto(p, "load_cs")
    /\ UNCHANGED <<index, idMap, gcs, docs, loc, ret, hist>>

\* lines 73-76: only m.index is assigned
LoadInstall(p, to) ==
    /\ pc[p] = "load_cs"
    /\ index' = <<loc[p].obj>>
    /\ mu' = Unlocked
    /\ Installed(loc[p].obj)
    /\ Return(p, [op |-> "Load", err |-> Nil])
    /\ loc' = [KeepReadObjects EXCEPT ![p] = NoLoc]
    /\ Goto(p, to)
    /\ UNCHANGED <<idMap, gcs, docs, addLog, allDim, savedFrom>>

(* ---- Build, lines 80-169 ---- *)

\* what may go wrong: the Firestore client or iterator (lines 82-104)
BuildFaults == {"none", "firestore"}

\* lines 82-153: scan the collection and fill a new index object
BuildCall(p, from) ==
    /\ pc[p] = from
    /\ Goto(p, "build_io")
    /\ UNCHANGED <<index, idMap, mu, gcs, docs, loc, ret, hist>>

BuildScan(p, to, fault) ==
    /\ pc[p] = "build_io"
    /\ IF fault = "none"
       THEN LET s == ScanDocs(DocOrder, docs)
            IN  /\ SetLoc(p, [NoLoc EXCEPT !.obj = BuiltIndex(s.vectors),
                                           !.ids = s.assetIDs])
                /\ Goto(p, "build_wait")
                /\ UNCHANGED ret
       ELSE /\ Return(p, [op |-> "Build", err |-> fault])
            /\ Goto(p, to)
            /\ UNCHANGED loc
    /\ UNCHANGED <<index, idMap, mu, gcs, docs, hist>>

\* line 156
BuildLock(p) ==
    /\ pc[p] = "build_wait"
    /\ CanLock
    /\ mu' = Locked(p)
    /\ Goto(p, "build_cs")
    /\ UNCHANGED <<index, idMap, gcs, docs, loc, ret, hist>>

\* lines 160-168 and the deferred Unlock
BuildInstall(p, to) ==
    /\ pc[p] = "build_cs"
    /\ index' = <<loc[p].obj>>
    /\ idMap' = BuiltIdMap(loc[p].ids)
    /\ mu' = Unlocked
    /\ Installed(loc[p].obj)
    /\ Return(p, [op |-> "Build", err |-> Nil])
    /\ loc' = [KeepReadObjects EXCEPT ![p] = NoLoc]
    /\ Goto(p, to)
    /\ UNCHANGED <<gcs, docs, addLog, allDim, savedFrom>>

\* a fresh manager, &index.IndexManager{}: no index, a nil id-map
NewManager(p) ==
    /\ \A q \in DOMAIN pc : pc[q] = "idle"
    /\ index' = <<>>
    /\ idMap' = <<>>
    /\ addLog' = <<>>
    /\ allDim' = TRUE
    /\ installs' = 0
    /\ emptyAtInstall' = FALSE
    /\ ret' = [q \in DOMAIN ret |-> NoRet]
    /\ UNCHANGED <<mu, gcs, docs, pc, loc, savedFrom>>

(***************************************************************************)
(* The auth package: the Firebase client singleton and the request the     *)
(* VerifyFirebaseJWT middleware is handling.                               *)
(***************************************************************************)
VARIABLES
    firebaseClient, \* the singleton: <<>> when nil, else <<the client>>
    once,           \* TRUE when once.Do has run its function
    http            \* the request, what was answered, what next was given

avars == <<firebaseClient, once, http>>

\* no request: state is "none", then "received", then "answered"; status is
\* the code respondWithError wrote (0 when it was not called); served tells
\* that next.ServeHTTP was called, userID is the value under UserIDKey in
\* the context next was given, verified what VerifyIDToken returned
NoRequest == [state |-> "none", header |-> <<>>, status |-> 0,
              served |-> FALSE, userID |-> <<>>, verified |-> <<>>]

\* the package before InitFirebase and before any request
AuthIdle == firebaseClient = <<>> /\ once = FALSE /\ http = NoRequest

(***************************************************************************)
(* The fingerprint worker, cmd/fingerprint-worker: one manager shared by   *)
(* main and by the processImage goroutines the /process handler starts.    *)
(***************************************************************************)
VARIABLES
    env,            \* the process environment: [project, trillian]
    run,            \* each processImage goroutine's locals
    trace,          \* history: the calls each run has started, in order
    made,           \* history: what each run has written
    certs,          \* certificates/{id}.json: id -> <<>> or <<certificate>>
    leaves,         \* the transparency log: leaf values in log order
    badges,         \* badges/{id}.png: id -> <<>> or <<score>>
    runs,           \* processImage goroutines started so far
    boot,           \* history: the process starts and the Adds that succeeded
    reply           \* what the verify endpoint of the API answered last

\* runs the /process handler may start, all together; from two on, runs
\* overlap
MaxRuns == 1

\* deliveries of the trigger of one asset, over all processes
MaxDeliveries == 2

\* starts of the worker process
MaxStarts == 2

\* k of the similarity lookup, main.go line 260
SearchK == 5

wvars == <<env, avars, boot, reply, run, trace, made, certs, leaves, badges, runs>>
mgr == <<index, idMap, mu, gcs, loc, ret, hist>>

\* the first process: starts counts the process starts, adding holds the
\* <<asset id, vector>> pairs whose Add returned nil in this process, added
\* those of the processes before it
FirstBoot == [starts |-> 1, adding |-> {}, added |-> {}]

\* the verify endpoint has not been asked
NoReply == [state |-> "none", asset |-> "", code |-> 0, status |-> "",
            proofFor |-> <<>>]

NoRun == [user |-> "", asset |-> "", fetchErr |-> Nil,
          ana |-> "none", text |-> <<>>, anaErr |-> Nil,
          emb |-> "none", vec |-> <<>>, embErr |-> Nil,
          searchErr |-> Nil, addErr |-> Nil,
          score |-> 0, narrative |-> <<>>, created |-> [s |-> 0, ns |-> 0],
          cert |-> <<>>, leafIndex |-> 0]

Range(f) == {f[x] : x \in DOMAIN f}

Did(p, what) == trace' = [trace EXCEPT ![p] = Append(@, what)]
Made(p, what) == made' = [made EXCEPT ![p] = @ \cup {what}]

(* ---- parseAnalysis, analysis.go lines 10-40 ---- *)

(***************************************************************************)
(* A text is a sequence of tokens [k, v]: "cs" the label `confidence       *)
(* score:` in any letter case, "j" the label `justification:` in any       *)
(* letter case, "num" a decimal literal matching [0-9]*\.?[0-9]+ that      *)
(* denotes v hundredths (0.98 is v = 98, 1.5 is v = 150), "sp" one blank,  *)
(* "nl" one newline, "w" a run of other characters without newline, v     *)
(* telling one such run from another.                                      *)
(***************************************************************************)
Tok(k) == [k |-> k, v |-> 0]
Num(v) == [k |-> "num", v |-> v]
Word(v) == [k |-> "w", v |-> v]

\* lines 20-26: ParseFloat gives the float64 nearest to v/100, and
\* int(floatScore * 100) truncates the float64 product, which for these v
\* (of 0..200) lies just below v: 0.29 * 100 is 28.999999999999996
RoundsBelow == {29, 57, 58, 113, 114, 115, 116}
Percent(v) == IF v \in RoundsBelow THEN v - 1 ELSE v

IsSpace(t) == t.k \in {"sp", "nl"}

\* \s* taken greedily from position i
RECURSIVE SkipSpace(_, _)
SkipSpace(txt, i) ==
    IF i <= Len(txt) /\ IsSpace(txt[i]) THEN SkipSpace(txt, i + 1) ELSE i

\* the last position of the newline-free stretch that starts at j
RECURSIVE LineEnd(_, _)
LineEnd(txt, j) ==
    IF j + 1 <= Len(txt) /\ txt[j + 1].k # "nl" THEN LineEnd(txt, j + 1) ELSE j

\* line 12: the positions where scoreRegex matches
ScoreMatches(txt) ==
    {i \in 1..Len(txt) :
        /\ txt[i].k = "cs"
        /\ SkipSpace(txt, i + 1) <= Len(txt)
        /\ txt[SkipSpace(txt, i + 1)].k = "num"}

\* (.+?)(?:\n\n|\z) from position s: one line, then a blank line or the end
CapturesFrom(txt, s) ==
    /\ s <= Len(txt)
    /\ txt[s].k # "nl"
    /\ \/ LineEnd(txt, s) = Len(txt)
       \/ /\ LineEnd(txt, s) + 2 <= Len(txt)
          /\ txt[LineEnd(txt, s) + 1].k = "nl"
          /\ txt[LineEnd(txt, s) + 2].k = "nl"

\* the starts \s* may leave to the capture after the label at i
CaptureStarts(txt, i) ==
    {s \in (i + 1)..SkipSpace(txt, i + 1) : CapturesFrom(txt, s)}

\* line 29: the positions where narrativeRegex matches
NarrativeMatches(txt) ==
    {i \in 1..Len(txt) : txt[i].k = "j" /\ CaptureStarts(txt, i) # {}}

Min(S) == CHOOSE x \in S : \A y \in S : x <= y
Max(S) == CHOOSE x \in S : \A y \in S : x >= y

parseAnalysisKeepsScore(rawText) ==
    IF ScoreMatches(rawText) = {}
    THEN [score |-> 0, narrative |-> <<>>,
          err |-> "confidence score not found in raw text"]
    ELSE [score |-> Percent(rawText[SkipSpace(rawText,
                                              Min(ScoreMatches(rawText)) + 1)].v),
          narrative |-> <<>>,
          err |-> IF NarrativeMatches(rawText) = {}
                  THEN "justification text not found in raw text" ELSE Nil]

parseAnalysis(rawText) ==
    IF ScoreMatches(rawText) = {}
    THEN [score |-> 0, narrative |-> <<>>,
          err |-> "confidence score not found in raw text"]
    ELSE IF NarrativeMatches(rawText) = {}
    THEN [score |-> 0, narrative |-> <<>>,
          err |-> "justification text not found in raw text"]
    ELSE LET i == Min(ScoreMatches(rawText))
             j == Min(NarrativeMatches(rawText))
             s == Max(CaptureStarts(rawText, j))
         IN  [score |-> Percent(rawText[SkipSpace(rawText, i + 1)].v),
              narrative |-> SubSeq(rawText, s, LineEnd(rawText, s)),
              err |-> Nil]

(* ---- certificate.Generate, internal/certificate ---- *)

\* a time.Time is a count of seconds s and the nanoseconds ns within the
\* second; Format(time.RFC3339) prints the date and time to the second and
\* the zone offset, so the nanoseconds do not appear in the string
FormatRFC3339(t) == <<"rfc3339", t.s>>

\* WorstRating and BestRating of the credential, lines 63-64
WorstRating == 1
BestRating == 10

GenerateUnclamped(asset) ==
    [subject |-> asset.id,
     creator |-> asset.user_id,
     ratingValue |-> asset.originality_score,
     narrative |-> IF asset.narrative = <<>> THEN asset.raw_analysis
                   ELSE asset.narrative,
     proofValue |-> <<"sha256", asset.id, FormatRFC3339(asset.created_at)>>]

GenerateNoFallback(asset) ==
    [subject |-> asset.id,
     creator |-> asset.user_id,
     ratingValue |-> IF asset.originality_score < WorstRating THEN WorstRating
                     ELSE IF asset.originality_score > BestRating
                     THEN BestRating
                     ELSE asset.originality_score,
     narrative |-> asset.narrative,
     proofValue |-> <<"sha256", asset.id, FormatRFC3339(asset.created_at)>>]

\* the rating is the score clamped to 1..10 (lines 31-36), the narrative
\* falls back to the raw analysis when empty (lines 39-42), the proof value
\* is the SHA-256 digest of the id followed by the formatted creation time
\* (lines 18-20)
Generate(asset) ==
    [subject |-> asset.id,
     creator |-> asset.user_id,
     ratingValue |-> IF asset.originality_score < WorstRating THEN WorstRating
                     ELSE IF asset.originality_score > BestRating
                     THEN BestRating
                     ELSE asset.originality_score,
     narrative |-> IF asset.narrative = <<>> THEN asset.raw_analysis
                   ELSE asset.narrative,
     proofValue |-> <<"sha256", asset.id, FormatRFC3339(asset.created_at)>>]

\* Generate as its caller sees it: a nil reference is answered with an error
\* and no credential (lines 13-15); otherwise the credential is returned with
\* a nil error (line 76), and no statement of the function assigns to the
\* Asset, which is returned here as the caller finds it after the call
GenerateCallNilAccepted(ref) ==
    IF ref = <<>>
    THEN [credential |-> <<>>, err |-> Nil, asset |-> <<>>]
    ELSE [credential |-> <<Generate(ref[1])>>, err |-> Nil, asset |-> ref]

GenerateCall(ref) ==
    IF ref = <<>>
    THEN [credential |-> <<>>, err |-> "asset cannot be nil", asset |-> <<>>]
    ELSE [credential |-> <<Generate(ref[1])>>, err |-> Nil, asset |-> ref]

\* main.go lines 324-325
LeafValueUnhashed(certificateJSON) == <<"raw", certificateJSON>>
LeafValue(certificateJSON) == <<"sha256", certificateJSON>>

(* ---- processImage, main.go lines 163-385 ---- *)

\* []float32 as Firestore stores it: an array of float64
RECURSIVE ToFirestore(_)
ToFirestore(vec) ==
    IF vec = <<>> THEN <<>>
    ELSE <<[n |-> Head(vec).n, v |-> <<"f", Head(vec).v>>]>>
         \o ToFirestore(Tail(vec))

\* lines 279-288 and the Asset struct, lines 43-53
Asset(r, now) ==
    [id |-> r.asset,
     user_id |-> r.user,
     status |-> "completed",
     created_at |-> now,
     raw_analysis |-> r.text,
     originality_score |-> r.score,
     narrative |-> r.narrative,
     embedding |-> <<[arr |-> TRUE, elems |-> ToFirestore(r.vec)]>>,
     assetId |-> <<>>,
     trillian_leaf_index |-> <<>>]

\* lines 169, 186 and 195: the run goes on only when the image was read
FetchedAlways(err) == TRUE
Fetched(err) == err = Nil

\* line 254: Search and Add are called when the embedding call succeeded
ShouldIndexAlways(r) == TRUE
ShouldIndex(r) == r.embErr = Nil

\* line 277: the commit gate
ShouldSaveAnalysisOnly(r) == r.anaErr = Nil
ShouldSaveIfIndexed(r) ==
    r.anaErr = Nil /\ r.embErr = Nil /\ r.searchErr = Nil /\ r.addErr = Nil
ShouldSave(r) == r.anaErr = Nil /\ r.embErr = Nil

\* the handler of /process starts a run, lines 119-160; at most limit runs
\* are started
TriggerWithin(limit, p, user, asset) ==
    /\ pc["main"] = "serving"
    /\ pc[p] = "idle"
    /\ runs < limit
    /\ runs' = runs + 1
    /\ run' = [run EXCEPT ![p] = [NoRun EXCEPT !.user = user, !.asset = asset]]
    /\ trace' = [trace EXCEPT ![p] = <<>>]
    /\ made' = [made EXCEPT ![p] = {}]
    /\ Goto(p, "p_fetch")
    /\ UNCHANGED <<mgr, docs, calls, env, avars, boot, reply, certs, leaves,
                   badges>>

Trigger(p, user, asset) == TriggerWithin(MaxRuns, p, user, asset)

\* the trigger of one asset is delivered again
Redeliver(p, user, asset) == TriggerWithin(MaxDeliveries, p, user, asset)

\* lines 166-202, and the two goroutines of lines 213-224 are started
FetchFaults == {"none", "storage"}

Fetch(p, fault) ==
    /\ pc[p] = "p_fetch"
    /\ LET err == IF fault = "none" THEN Nil ELSE fault
       IN  /\ run' = [run EXCEPT ![p] =
                        IF Fetched(err)
                        THEN [@ EXCEPT !.fetchErr = err,
                                       !.ana = "running", !.emb = "running"]
                        ELSE [@ EXCEPT !.fetchErr = err]]
           /\ trace' = [trace EXCEPT ![p] =
                          IF Fetched(err)
                          THEN @ \o <<"fetch", "analysis", "embedding">>
                          ELSE @ \o <<"fetch">>]
           /\ Goto(p, IF Fetched(err) THEN "p_forked" ELSE "idle")
    /\ UNCHANGED <<mgr, docs, calls, env, avars, boot, reply, made, certs,
                   leaves, badges, runs>>

\* line 217: getAuthenticityAnalysis returns
AnalysisReturns(p, text, err) ==
    /\ pc[p] = "p_forked"
    /\ run[p].ana = "running"
    /\ run' = [run EXCEPT ![p].ana = "done", ![p].text = text, ![p].anaErr = err]
    /\ UNCHANGED <<mgr, docs, pc, calls, env, avars, boot, reply, trace, made,
                   certs, leaves, badges, runs>>

\* line 224: getEmbedding returns
EmbeddingReturns(p, vec, err) ==
    /\ pc[p] = "p_forked"
    /\ run[p].emb = "running"
    /\ run' = [run EXCEPT ![p].emb = "done", ![p].vec = vec, ![p].embErr = err]
    /\ UNCHANGED <<mgr, docs, pc, calls, env, avars, boot, reply, trace, made,
                   certs, leaves, badges, runs>>

\* lines 229-252: wg.Wait() returns, the analysis text is parsed
ParsedWithoutFallback(r) ==
    IF r.anaErr # Nil \/ parseAnalysis(r.text).err # Nil THEN r
    ELSE [r EXCEPT !.score = parseAnalysis(r.text).score,
                   !.narrative = parseAnalysis(r.text).narrative]

Parsed(r) ==
    IF r.anaErr # Nil THEN r
    ELSE IF parseAnalysis(r.text).err # Nil
    THEN [r EXCEPT !.score = 0, !.narrative = r.text]
    ELSE [r EXCEPT !.score = parseAnalysis(r.text).score,
                   !.narrative = parseAnalysis(r.text).narrative]

\* line 229: wg.Wait() returns when both goroutines have called wg.Done
WaitedForEither(r) == r.ana = "done" \/ r.emb = "done"
Waited(r) == r.ana = "done" /\ r.emb = "done"

Join(p) ==
    /\ pc[p] = "p_forked"
    /\ Waited(run[p])
    /\ run' = [run EXCEPT ![p] = Parsed(@)]
    /\ Goto(p, IF ShouldIndex(run[p]) THEN "p_index" ELSE "p_commit")
    /\ UNCHANGED <<mgr, docs, calls, env, avars, boot, reply, trace, made,
                   certs, leaves, badges, runs>>

\* line 260
PipeSearch(p) ==
    /\ SearchCall(p, "p_index", run[p].vec, SearchK)
    /\ Did(p, "Search")
    /\ UNCHANGED <<calls, env, avars, boot, reply, run, made, certs, leaves,
                   badges, runs>>

\* line 268
PipeAdd(p) ==
    /\ AddCall(p, "p_searched", run[p].asset, run[p].vec)
    /\ Did(p, "Add")
    /\ UNCHANGED <<calls, env, avars, boot, reply, run, made, certs, leaves,
                   badges, runs>>

\* lines 260-263 and 268-271: the call returns an error, which is logged
PipeSearchFails(p) ==
    /\ SearchFails(p, "p_searched")
    /\ run' = [run EXCEPT ![p].searchErr = ErrFaiss]
    /\ UNCHANGED <<calls, env, avars, boot, reply, trace, made, certs, leaves,
                   badges, runs>>

PipeAddFails(p) ==
    /\ AddFails(p, "p_commit")
    /\ run' = [run EXCEPT ![p].addErr = ErrFaiss]
    /\ UNCHANGED <<calls, env, avars, boot, reply, trace, made, certs, leaves,
                   badges, runs>>

\* lines 268-273: Add returns nil; the pair is remembered as added by this
\* process
PipeAdded(p) ==
    /\ AddExit(p, "p_commit")
    /\ boot' = [boot EXCEPT !.adding = @ \cup {<<loc[p].id, loc[p].vec>>}]
    /\ UNCHANGED <<calls, env, avars, reply, run, trace, made, certs, leaves,
                   badges, runs>>

\* lines 277-295: saveAsset (lines 597-623) sets the Asset document
AssetFaults == {"none", "firestore"}

Commit(p, fault, now) ==
    /\ pc[p] = "p_commit"
    /\ IF ~ShouldSave(run[p])
       THEN /\ Goto(p, "idle")
            /\ UNCHANGED <<docs, run, trace, made>>
       ELSE /\ Did(p, "saveAsset")
            /\ run' = [run EXCEPT ![p].created = now]
            /\ IF env.project /\ fault = "none"
               THEN /\ docs' = [docs EXCEPT ![run[p].asset] = <<Asset(run[p], now)>>]
                    /\ Made(p, "asset")
                    /\ Goto(p, "p_cert")
               ELSE /\ Goto(p, "idle")
                    /\ UNCHANGED <<docs, made>>
    /\ UNCHANGED <<mgr, calls, env, avars, boot, reply, certs, leaves, badges,
                   runs>>

\* lines 297-310: Generate, MarshalIndent, saveJSONCertificate (lines
\* 663-697); each has its error branch, lines 298, 303 and 308
CertFaults == {"none", "generate", "marshal", "upload"}

\* the else branches of lines 300, 305 and 309 hold all the later stages
AfterCertifyReindexes(fault) == IF fault = "none" THEN "p_index" ELSE "idle"
AfterCertifyBadge(fault) == IF fault = "none" THEN "p_log" ELSE "p_badge"
AfterCertify(fault) == IF fault = "none" THEN "p_log" ELSE "idle"

Certify(p, fault) ==
    /\ pc[p] = "p_cert"
    /\ Did(p, "certificate")
    /\ IF fault = "none"
       THEN /\ run' = [run EXCEPT ![p].cert =
                         <<Generate(Asset(run[p], run[p].created))>>]
            /\ certs' = [certs EXCEPT ![run[p].asset] =
                           <<Generate(Asset(run[p], run[p].created))>>]
            /\ Made(p, "certificate")
       ELSE UNCHANGED <<run, certs, made>>
    /\ Goto(p, AfterCertify(fault))
    /\ UNCHANGED <<mgr, docs, calls, env, avars, boot, reply, leaves, badges,
                   runs>>

\* lines 314-332: the leaf is queued when both variables are set and the
\* log id is a number; queueLeafInTrillian, lines 700-759
LogFaults == {"none", "log"}

\* lines 317-321: both variables are set and the log id parses as an int64
LogConfiguredAlways(e) == TRUE
LogConfigured(e) == e.trillian = "ok"

QueueLeaf(p, fault) ==
    /\ pc[p] = "p_log"
    /\ IF ~LogConfigured(env)
       THEN /\ Goto(p, "p_badge")
            /\ UNCHANGED <<run, trace, made, leaves>>
       ELSE /\ Did(p, "queueLeaf")
            /\ IF fault = "none"
               THEN /\ leaves' = Append(leaves, LeafValue(run[p].cert[1]))
                    /\ run' = [run EXCEPT ![p].leafIndex = Len(leaves)]
                    /\ Made(p, "leaf")
                    /\ Goto(p, "p_record")
               ELSE /\ Goto(p, "p_badge")
                    /\ UNCHANGED <<run, made, leaves>>
    /\ UNCHANGED <<mgr, docs, calls, env, avars, boot, reply, certs, badges,
                   runs>>

\* lines 347-349: Update sets the one field trillian_leaf_index
WithLeafIndexOnly(doc, leafIndex) ==
    [doc EXCEPT !.trillian_leaf_index = <<leafIndex>>,
                !.raw_analysis = <<>>, !.narrative = <<>>,
                !.originality_score = 0, !.embedding = <<>>]

WithLeafIndex(doc, leafIndex) ==
    [doc EXCEPT !.trillian_leaf_index = <<leafIndex>>]

\* lines 334-358: the leaf index is written into the Asset document
RecordLeaf(p, fault) ==
    /\ pc[p] = "p_record"
    /\ IF env.project /\ fault = "none" /\ docs[run[p].asset] # <<>>
       THEN /\ docs' = [docs EXCEPT ![run[p].asset] =
                          <<WithLeafIndex(@[1], run[p].leafIndex)>>]
            /\ Made(p, "position")
       ELSE UNCHANGED <<docs, made>>
    /\ Did(p, "update")
    /\ Goto(p, "p_badge")
    /\ UNCHANGED <<mgr, calls, env, avars, boot, reply, run, certs, leaves,
                   runs, badges>>

\* lines 364-376: GenerateBadge and savePNGBadge (lines 626-660)
BadgeFaults == {"none", "upload"}

Badge(p, fault) ==
    /\ pc[p] = "p_badge"
    /\ Did(p, "badge")
    /\ IF fault = "none"
       THEN /\ badges' = [badges EXCEPT ![run[p].asset] = <<run[p].score>>]
            /\ Made(p, "badge")
       ELSE UNCHANGED <<badges, made>>
    /\ Goto(p, "idle")
    /\ UNCHANGED <<mgr, docs, calls, env, avars, boot, reply, run, certs,
                   leaves, runs>>

(* ---- package auth, part_000 lines 305-519 ---- *)

StatusUnauthorized == 401
StatusInternalServerError == 500

\* A header value is a sequence of pieces: " " is one space, any other
\* piece is a run of characters without a space, and two such runs are
\* never adjacent.  strings.Split(authHeader, " ") cuts at every space, so
\* two spaces in a row, a leading and a trailing space give an empty part.
RECURSIVE SplitFrom(_, _)
SplitFrom(h, cur) ==
    IF h = <<>> THEN <<cur>>
    ELSE IF Head(h) = " " THEN <<cur>> \o SplitFrom(Tail(h), "")
    ELSE SplitFrom(Tail(h), Head(h))

Split(h) == SplitFrom(h, "")

\* strings.ToLower on the pieces the requests are made of
ToLower(str) == IF str \in {"Bearer", "BEARER"} THEN "bearer" ELSE str

\* line 424: two parts, the first one "bearer" in any case
BearerFormatAnyScheme(parts) == Len(parts) = 2
BearerFormat(parts) == Len(parts) = 2 /\ ToLower(parts[1]) = "bearer"

\* GetFirebaseClient, lines 400-405
GetFirebaseClient ==
    IF firebaseClient = <<>>
    THEN [client |-> <<>>,
          err |-> "firebase client not initialized. Call InitFirebase() first"]
    ELSE [client |-> firebaseClient, err |-> Nil]

\* InitFirebase, lines 349-397: what the environment and the Firebase SDK
\* make of the first call
InitOutcomes == {"no_project", "app_error", "auth_error", "ok"}

InitError(outcome) ==
    CASE outcome = "no_project"
           -> "FIREBASE_PROJECT_ID or PROJECT_ID environment variable is required"
      [] outcome = "app_error" -> "error initializing firebase app"
      [] outcome = "auth_error" -> "error getting auth client"
      [] OTHER -> Nil

\* once.Do runs the function on the first call only; err is a local of
\* each call, nil unless the function ran and failed
InitFirebase(outcome) ==
    /\ IF once
       THEN /\ ret' = [ret EXCEPT !["main"] = [op |-> "InitFirebase", err |-> Nil]]
            /\ UNCHANGED <<firebaseClient, once>>
       ELSE /\ once' = TRUE
            /\ firebaseClient' = IF outcome = "ok" THEN <<"client">>
                                 ELSE firebaseClient
            /\ ret' = [ret EXCEPT !["main"] =
                         [op |-> "InitFirebase", err |-> InitError(outcome)]]
    /\ UNCHANGED <<index, idMap, mu, gcs, loc, hist, docs, pc, calls, http,
                   env, run, trace, made, certs, leaves, badges, runs,
                   boot, reply>>

\* a request with Authorization header h reaches the middleware
Receive(h) ==
    /\ http.state = "none"
    /\ http' = [NoRequest EXCEPT !.state = "received", !.header = h]
    /\ UNCHANGED <<mgr, docs, pc, calls, firebaseClient, once,
                   env, run, trace, made, certs, leaves, badges, runs,
                   boot, reply>>

\* respondWithError(w, statusCode, ...), lines 507-519
RespondWithError(statusCode) ==
    [http EXCEPT !.state = "answered", !.status = statusCode]

\* the handler VerifyFirebaseJWT(next) returns, lines 414-458; decoded is
\* what VerifyIDToken makes of the token: <<>> for an error, else <<UID>>
VerifyFirebaseJWT(decoded) ==
    /\ http.state = "received"
    /\ http' =
         IF http.header = <<>> THEN RespondWithError(StatusUnauthorized)
         ELSE IF ~BearerFormat(Split(http.header))
         THEN RespondWithError(StatusUnauthorized)
         ELSE IF Split(http.header)[2] = ""
         THEN RespondWithError(StatusUnauthorized)
         ELSE IF GetFirebaseClient.err # Nil
         THEN RespondWithError(StatusInternalServerError)
         ELSE IF decoded = <<>>
         THEN RespondWithError(StatusUnauthorized)
         ELSE [http EXCEPT !.state = "answered", !.served = TRUE,
                           !.userID = decoded, !.verified = decoded]
    /\ UNCHANGED <<mgr, docs, pc, calls, firebaseClient, once,
                   env, run, trace, made, certs, leaves, badges, runs,
                   boot, reply>>

(* ---- verifyHandler, cmd/api/main.go lines 613-716 ---- *)

StatusOK == 200
StatusAccepted == 202
StatusNotFound == 404

\* lines 673-674: DataTo fills the Asset struct of lines 44-54; a field the
\* document does not carry leaves the int64 at its zero value
TrillianLeafIndex(doc) ==
    IF "trillian_leaf_index" \notin DOMAIN doc THEN 0
    ELSE IF doc.trillian_leaf_index = <<>> THEN 0
    ELSE doc.trillian_leaf_index[1]

\* line 681: the asset is taken as not yet logged
NotLogged(doc) == TrillianLeafIndex(doc) = 0

\* what may go wrong: the Firestore client or Get (lines 650-670), the
\* inclusion proof (lines 695-716)
VerifyFaults == {"none", "firestore", "trillian"}

Answer(assetID, code, status, proofFor) ==
    [state |-> "answered", asset |-> assetID, code |-> code,
     status |-> status, proofFor |-> proofFor]

\* lines 648-716, for a GET of /api/v1/verify/{assetID}
verifyHandler(coll, assetID, fault) ==
    IF fault = "firestore"
    THEN Answer(assetID, StatusInternalServerError, "", <<>>)
    ELSE IF coll[assetID] = <<>>
    THEN Answer(assetID, StatusNotFound, "", <<>>)
    ELSE IF NotLogged(coll[assetID][1])
    THEN Answer(assetID, StatusAccepted, "pending_inclusion", <<>>)
    ELSE Answer(assetID,
                IF fault = "trillian" THEN StatusInternalServerError
                ELSE StatusOK,
                "", <<TrillianLeafIndex(coll[assetID][1])>>)

\* a client asks the API about an asset
Verify(assetID, fault) ==
    /\ reply' = verifyHandler(docs, assetID, fault)
    /\ UNCHANGED <<mgr, docs, pc, calls, env, avars, boot, run, trace, made,
                   certs, leaves, badges, runs>>

(* ---- main, main.go lines 55-116 ---- *)

\* log.Fatalf of lines 68, 85 and 94
Fatal(at) ==
    /\ pc["main"] = at
    /\ ret["main"].err # Nil
    /\ Goto("main", "m_fatal")
    /\ UNCHANGED <<mgr, docs, calls, wvars>>

\* line 72
MainHasIndex ==
    /\ pc["main"] = "m_loaded"
    /\ ret["main"].err = Nil
    /\ HasIndexCall("main", "m_loaded")
    /\ UNCHANGED <<calls, wvars>>

\* lines 77-80: without a project id the process ends
MainNoProject ==
    /\ pc["main"] = "m_checked"
    /\ ~ret["main"].val
    /\ ~env.project
    /\ Goto("main", "m_fatal")
    /\ UNCHANGED <<mgr, docs, calls, wvars>>

\* line 83
MainBuild ==
    /\ pc["main"] = "m_checked"
    /\ ~ret["main"].val
    /\ env.project
    /\ BuildCall("main", "m_checked")
    /\ UNCHANGED <<calls, wvars>>

\* line 92
MainSave ==
    /\ pc["main"] = "m_built"
    /\ ret["main"].err = Nil
    /\ SaveCall("main", "m_built")
    /\ UNCHANGED <<calls, wvars>>

\* lines 103-115: the server starts, after a Load that installed an index
\* or after a Save that succeeded
ReadyUnchecked(at, r) ==
    \/ at = "m_checked"
    \/ at = "m_saved" /\ r.err = Nil
Ready(at, r) ==
    \/ at = "m_checked" /\ r.val
    \/ at = "m_saved" /\ r.err = Nil

Serve ==
    /\ Ready(pc["main"], ret["main"])
    /\ Goto("main", "serving")
    /\ UNCHANGED <<mgr, docs, calls, wvars>>

(***************************************************************************)
(* Spec: clients of one manager.                                           *)
(***************************************************************************)
Ids == {"a", "b"}

\* vectors a caller may pass: of the index's dimension, shorter by one,
\* and of twice the dimension
Vectors == {Vec(Dim, 1), Vec(Dim, 2), Vec(Dim - 1, 1),
            Cat(Vec(Dim, 1), Vec(Dim, 2))}

Ks == {0, 1, 2}

NoDoc == <<>>
Doc(emb, assetId) == <<[embedding |-> emb, assetId |-> assetId]>>
Embedding(elems) == <<[arr |-> TRUE, elems |-> elems]>>

\* the collections Build may find
DocConfigs ==
    { [a |-> NoDoc, b |-> NoDoc],
      [a |-> Doc(Embedding(F64(Dim, 1)), <<>>), b |-> NoDoc],
      [a |-> Doc(<<>>, <<>>),
       b |-> Doc(Embedding(F64(Dim, 2)), <<[str |-> TRUE, s |-> "z"]>>)] }

AllProcs == Procs \cup {"main"}

MgrInit ==
    /\ index = <<>>
    /\ idMap = <<>>
    /\ mu = [w |-> "none", r |-> {}]
    /\ loc = [p \in AllProcs |-> NoLoc]
    /\ ret = [p \in AllProcs |-> NoRet]
    /\ addLog = <<>>
    /\ allDim = TRUE
    /\ installs = 0
    /\ emptyAtInstall = FALSE

\* no run has been started, nothing has been written
NoRuns ==
    /\ run = [p \in Procs |-> NoRun]
    /\ trace = [p \in Procs |-> <<>>]
    /\ made = [p \in Procs |-> {}]
    /\ certs = [id \in Ids |-> <<>>]
    /\ leaves = <<>>
    /\ badges = [id \in Ids |-> <<>>]
    /\ runs = 0

Init ==
    /\ MgrInit
    /\ AuthIdle
    /\ boot = FirstBoot
    /\ reply = NoReply
    /\ pc = [p \in AllProcs |-> "idle"]
    /\ gcs = <<>>
    /\ savedFrom = [rows |-> <<>>, idMap |-> <<>>]
    /\ docs \in DocConfigs
    /\ calls = 0
    /\ env = [project |-> TRUE, trillian |-> "absent"]
    /\ NoRuns

\* a client starts a call
Call == calls < MaxCalls /\ calls' = calls + 1 /\ UNCHANGED wvars

Quiet == UNCHANGED <<calls, wvars>>

Next ==
    \E p \in Procs :
        \/ \E id \in Ids, v \in Vectors : Call /\ AddCall(p, "idle", id, v)
        \/ AddNoIndex(p, "idle") /\ Quiet
        \/ AddEnter(p) /\ Quiet
        \/ AddExit(p, "idle") /\ Quiet
        \/ \E v \in Vectors, k \in Ks : Call /\ SearchCall(p, "idle", v, k)
        \/ SearchEnter(p) /\ Quiet
        \/ SearchExit(p, "idle") /\ Quiet
        \/ Call /\ HasIndexCall(p, "idle")
        \/ HasIndexEnter(p) /\ Quiet
        \/ HasIndexExit(p, "idle") /\ Quiet
        \/ Call /\ SaveCall(p, "idle")
        \/ SaveEnter(p) /\ Quiet
        \/ SaveCheck(p, "idle") /\ Quiet
        \/ SaveHeader(p) /\ Quiet
        \/ \E f \in SaveFaults : SaveWrite(p, "idle", f) /\ Quiet
        \/ Call /\ LoadCall(p, "idle")
        \/ \E f \in LoadFaults : LoadFetch(p, "idle", f) /\ Quiet
        \/ LoadLock(p) /\ Quiet
        \/ LoadInstall(p, "idle") /\ Quiet
        \/ Call /\ BuildCall(p, "idle")
        \/ \E f \in BuildFaults : BuildScan(p, "idle", f) /\ Quiet
        \/ BuildLock(p) /\ Quiet
        \/ BuildInstall(p, "idle") /\ Quiet
        \/ NewManager(p) /\ Quiet

vars == <<index, idMap, mu, gcs, docs, pc, loc, ret, calls,
          addLog, allDim, installs, emptyAtInstall, savedFrom,
          env, run, trace, made, certs, leaves, badges, runs,
          firebaseClient, once, http, boot, reply>>

Spec == Init /\ [][Next]_vars

(***************************************************************************)
(* SpecWorker: the worker process, from the start of main.                 *)
(***************************************************************************)
Users == {"u"}

\* what the analysis call may answer: both labels with the score 0.98 or
\* 1.5, or plain prose
Texts ==
    { <<Tok("cs"), Tok("sp"), Num(98), Tok("nl"), Tok("j"), Tok("sp"), Tok("w")>>,
      <<Tok("cs"), Tok("sp"), Num(150), Tok("nl"), Tok("j"), Tok("sp"), Tok("w")>>,
      <<Tok("w")>> }

\* what the embedding call may answer
EmbVecs == {Vec(Dim, 1), Vec(Dim, 2)}

\* creation times
Times == {[s |-> 1, ns |-> 0]}

Envs == [project : BOOLEAN, trillian : {"absent", "malformed", "ok"}]

\* what the process finds when it starts: no snapshot and any collection,
\* or the snapshot an earlier process built and saved from document a
Boots ==
    {[docs |-> d, gcs |-> <<>>, savedFrom |-> [rows |-> <<>>, idMap |-> <<>>]] :
        d \in DocConfigs}
    \cup {[docs |-> [a |-> Doc(Embedding(F64(Dim, 1)), <<>>), b |-> NoDoc],
           gcs |-> <<WriteIndex(BuiltIndex(<<Vec(Dim, 1)>>))>>,
           savedFrom |-> [rows |-> BuiltIndex(<<Vec(Dim, 1)>>),
                          idMap |-> BuiltIdMap(<<"a">>)]]}

WorkerInit ==
    /\ MgrInit
    /\ AuthIdle
    /\ boot = FirstBoot
    /\ reply = NoReply
    /\ pc = [p \in AllProcs |-> IF p = "main" THEN "m_start" ELSE "idle"]
    /\ \E b \in Boots : docs = b.docs /\ gcs = b.gcs /\ savedFrom = b.savedFrom
    /\ calls = 0
    /\ env \in Envs
    /\ NoRuns

WorkerNext ==
    \* main
    \/ LoadCall("main", "m_start") /\ Quiet
    \/ \E f \in LoadFaults : LoadFetch("main", "m_loaded", f) /\ Quiet
    \/ LoadLock("main") /\ Quiet
    \/ LoadInstall("main", "m_loaded") /\ Quiet
    \/ Fatal("m_loaded")
    \/ MainHasIndex
    \/ HasIndexEnter("main") /\ Quiet
    \/ HasIndexExit("main", "m_checked") /\ Quiet
    \/ MainNoProject
    \/ MainBuild
    \/ \E f \in BuildFaults : BuildScan("main", "m_built", f) /\ Quiet
    \/ BuildLock("main") /\ Quiet
    \/ BuildInstall("main", "m_built") /\ Quiet
    \/ Fatal("m_built")
    \/ MainSave
    \/ SaveEnter("main") /\ Quiet
    \/ SaveCheck("main", "m_saved") /\ Quiet
    \/ SaveHeader("main") /\ Quiet
    \/ \E f \in SaveFaults : SaveWrite("main", "m_saved", f) /\ Quiet
    \/ Fatal("m_saved")
    \/ Serve
    \* the runs
    \/ \E p \in Procs :
        \/ \E u \in Users, id \in Ids : Trigger(p, u, id)
        \/ \E f \in FetchFaults : Fetch(p, f)
        \/ AnalysisReturns(p, <<>>, "analysis")
        \/ \E t \in Texts : AnalysisReturns(p, t, Nil)
        \/ EmbeddingReturns(p, <<>>, "embedding")
        \/ \E v \in EmbVecs : EmbeddingReturns(p, v, Nil)
        \/ Join(p)
        \/ PipeSearch(p)
        \/ SearchEnter(p) /\ Quiet
        \/ SearchExit(p, "p_searched") /\ Quiet
        \/ PipeSearchFails(p)
        \/ PipeAdd(p)
        \/ AddEnter(p) /\ Quiet
        \/ AddExit(p, "p_commit") /\ Quiet
        \/ PipeAddFails(p)
        \/ \E f \in AssetFaults, t \in Times : Commit(p, f, t)
        \/ \E f \in CertFaults : Certify(p, f)
        \/ \E f \in LogFaults : QueueLeaf(p, f)
        \/ \E f \in AssetFaults : RecordLeaf(p, f)
        \/ \E f \in BadgeFaults : Badge(p, f)

SpecWorker == WorkerInit /\ [][WorkerNext]_vars

(***************************************************************************)
(* SpecBuild: Build over the collections a schemaless store may hold.      *)
(***************************************************************************)
\* what a document of the collection may look like: no embedding; an
\* embedding of Dim floats, alone, with an assetId string, with an assetId
\* that is no string; an embedding that is no array; one float short; with
\* a component that is no float
DocShapes ==
    { Doc(<<>>, <<>>),
      Doc(Embedding(F64(Dim, 1)), <<>>),
      Doc(Embedding(F64(Dim, 2)), <<[str |-> TRUE, s |-> "z"]>>),
      Doc(Embedding(F64(Dim, 1)), <<[str |-> FALSE, s |-> ""]>>),
      Doc(<<[arr |-> FALSE, elems |-> <<>>]>>, <<>>),
      Doc(Embedding(F64(Dim - 1, 1)), <<>>),
      Doc(Embedding(<<[n |-> 1, v |-> <<"s", 0>>]>> \o F64(Dim - 1, 1)), <<>>) }

BuildDocs == [Ids -> DocShapes \cup {NoDoc}]

BuildInit ==
    /\ MgrInit
    /\ AuthIdle
    /\ boot = FirstBoot
    /\ reply = NoReply
    /\ pc = [p \in AllProcs |-> "idle"]
    /\ gcs = <<>>
    /\ savedFrom = [rows |-> <<>>, idMap |-> <<>>]
    /\ docs \in BuildDocs
    /\ calls = 0
    /\ env = [project |-> TRUE, trillian |-> "absent"]
    /\ NoRuns

BuildNext ==
    \/ BuildCall("main", "idle") /\ Quiet
    \/ \E f \in BuildFaults : BuildScan("main", "idle", f) /\ Quiet
    \/ BuildLock("main") /\ Quiet
    \/ BuildInstall("main", "idle") /\ Quiet

SpecBuild == BuildInit /\ [][BuildNext]_vars

(***************************************************************************)
(* SpecParse: parseAnalysis applied to the texts the analysis call may     *)
(* answer.                                                                 *)
(***************************************************************************)
\* the numbers a text may give as confidence score
Scores == {0, 29, 50, 98, 100, 150}

\* a text is: maybe a leading paragraph; maybe a score line, well formed
\* or with no blank or no number after the label; a separator; maybe a
\* justification, of one line, ended by a blank line and more text, ended
\* by one newline, of two lines, or empty
Leads == {<<>>, <<Word(3), Tok("nl"), Tok("nl")>>}
ScoreParts ==
    {<<>>, <<Tok("cs"), Num(98)>>, <<Tok("cs"), Tok("sp"), Word(4)>>}
    \cup {<<Tok("cs"), Tok("sp"), Num(v)>> : v \in Scores}
Separators == {<<Tok("nl"), Tok("nl")>>, <<Tok("nl")>>, <<Tok("sp")>>}
Justifications ==
    { <<>>,
      <<Tok("j")>>,
      <<Tok("j"), Word(1)>>,
      <<Tok("j"), Tok("sp"), Word(1), Tok("sp"), Word(2)>>,
      <<Tok("j"), Tok("sp"), Word(1), Tok("nl"), Tok("nl"), Word(2)>>,
      <<Tok("j"), Tok("sp"), Word(1), Tok("nl")>>,
      <<Tok("j"), Tok("sp"), Word(1), Tok("nl"), Word(2)>>,
      <<Tok("j"), Tok("nl"), Tok("nl"), Word(1)>> }

ParseTexts ==
    {<<>>} \cup {l \o c \o m \o t : l \in Leads, c \in ScoreParts,
                                    m \in Separators, t \in Justifications}

ParseInit ==
    /\ MgrInit
    /\ AuthIdle
    /\ boot = FirstBoot
    /\ reply = NoReply
    /\ pc = [p \in AllProcs |-> "idle"]
    /\ gcs = <<>>
    /\ savedFrom = [rows |-> <<>>, idMap |-> <<>>]
    /\ docs = [id \in Ids |-> NoDoc]
    /\ calls = 0
    /\ env = [project |-> TRUE, trillian |-> "absent"]
    /\ \E t \in ParseTexts :
          run = [p \in Procs |-> IF p = "p1" THEN [NoRun EXCEPT !.text = t]
                                 ELSE NoRun]
    /\ trace = [p \in Procs |-> <<>>]
    /\ made = [p \in Procs |-> {}]
    /\ certs = [id \in Ids |-> <<>>]
    /\ leaves = <<>>
    /\ badges = [id \in Ids |-> <<>>]
    /\ runs = 0

\* parseAnalysis(rawText) is called and returns
ParseCall(p) ==
    /\ ret[p] = NoRet
    /\ ret' = [ret EXCEPT ![p] =
                 [op |-> "parseAnalysis",
                  score |-> parseAnalysis(run[p].text).score,
                  narrative |-> parseAnalysis(run[p].text).narrative,
                  err |-> parseAnalysis(run[p].text).err]]
    /\ UNCHANGED <<index, idMap, mu, gcs, docs, pc, loc, hist, calls, wvars>>

ParseNext == ParseCall("p1")

SpecParse == ParseInit /\ [][ParseNext]_vars

(***************************************************************************)
(* certificate.Generate on its own: two Assets are drawn and Generate is   *)
(* called on each.                                                         *)
(***************************************************************************)
CertTimes == {[s |-> 1, ns |-> 0], [s |-> 1, ns |-> 500000000],
              [s |-> 2, ns |-> 0]}
CertScores == {0 - 1, 0, 1, 5, 10, 11, 98}
CertNarratives == {<<>>, <<Word(1)>>, <<Word(2)>>}

CertInit ==
    /\ MgrInit
    /\ AuthIdle
    /\ boot = FirstBoot
    /\ reply = NoReply
    /\ pc = [p \in AllProcs |-> "idle"]
    /\ gcs = <<>>
    /\ savedFrom = [rows |-> <<>>, idMap |-> <<>>]
    /\ docs = [id \in Ids |-> NoDoc]
    /\ calls = 0
    /\ env = [project |-> TRUE, trillian |-> "absent"]
    /\ \E a1, a2 \in Ids, t1, t2 \in CertTimes, sc \in CertScores,
          n \in CertNarratives, raw \in CertNarratives :
          run = [p \in Procs |->
                   IF p = "p1"
                   THEN [NoRun EXCEPT !.user = "u", !.asset = a1,
                                      !.created = t1, !.score = sc]
                   ELSE [NoRun EXCEPT !.user = "u", !.asset = a2,
                                      !.created = t2, !.score = 5,
                                      !.narrative = n, !.text = raw]]
    /\ trace = [p \in Procs |-> <<>>]
    /\ made = [p \in Procs |-> {}]
    /\ certs = [id \in Ids |-> <<>>]
    /\ leaves = <<>>
    /\ badges = [id \in Ids |-> <<>>]
    /\ runs = 0

\* certificate.Generate is called, on the Asset of p or on nil, and returns
CertCall(p) ==
    /\ ret[p] = NoRet
    /\ \E ref \in {<<>>, <<Asset(run[p], run[p].created)>>} :
          ret' = [ret EXCEPT ![p] =
                    [op |-> "Generate", arg |-> ref,
                     err |-> GenerateCall(ref).err,
                     credential |-> GenerateCall(ref).credential,
                     asset |-> GenerateCall(ref).asset]]
    /\ UNCHANGED <<index, idMap, mu, gcs, docs, pc, loc, hist, calls, wvars>>

CertNext == \E p \in Procs : CertCall(p)

SpecCert == CertInit /\ [][CertNext]_vars

(***************************************************************************)
(* The auth package on its own: InitFirebase may be called at any time,    *)
(* and one request passes through VerifyFirebaseJWT.                       *)
(***************************************************************************)
Pieces == {" ", "Bearer", "bearer", "BEARER", "Basic", "t"}

\* the header values of up to three pieces, and three longer ones
Headers ==
    {h \in UNION {[1..n -> Pieces] : n \in 0..3} :
        \A i \in 1..(Len(h) - 1) : h[i] = " " \/ h[i + 1] = " "}
    \cup {<<"Bearer", " ", " ", "t">>, <<"Bearer", " ", "t", " ">>,
          <<"Bearer", " ", "t", " ", "t">>}

AuthInit ==
    /\ MgrInit
    /\ AuthIdle
    /\ boot = FirstBoot
    /\ reply = NoReply
    /\ pc = [p \in AllProcs |-> "idle"]
    /\ gcs = <<>>
    /\ savedFrom = [rows |-> <<>>, idMap |-> <<>>]
    /\ docs = [id \in Ids |-> NoDoc]
    /\ calls = 0
    /\ env = [project |-> TRUE, trillian |-> "absent"]
    /\ run = [p \in Procs |-> NoRun]
    /\ trace = [p \in Procs |-> <<>>]
    /\ made = [p \in Procs |-> {}]
    /\ certs = [id \in Ids |-> <<>>]
    /\ leaves = <<>>
    /\ badges = [id \in Ids |-> <<>>]
    /\ runs = 0

AuthNext ==
    \/ \E outcome \in InitOutcomes : InitFirebase(outcome)
    \/ \E h \in Headers : Receive(h)
    \/ \E decoded \in {<<>>} \cup {<<u>> : u \in Users} :
          VerifyFirebaseJWT(decoded)

SpecAuth == AuthInit /\ [][AuthNext]_vars

(***************************************************************************)
(* SpecRedeliver: the worker over several deliveries of the trigger of one *)
(* asset and over restarts of the process, and the API's verify endpoint.  *)
(***************************************************************************)
\* the process ends and a new one starts at main.go line 55: the manager and
\* the goroutines of the old process are gone; the bucket, the collection,
\* the certificates, the badges and the log stay
Restart ==
    /\ pc["main"] = "serving"
    /\ boot.starts < MaxStarts
    /\ boot' = [starts |-> boot.starts + 1, adding |-> {},
                added |-> boot.added \cup boot.adding]
    /\ pc' = [p \in AllProcs |-> IF p = "main" THEN "m_start" ELSE "idle"]
    /\ index' = <<>>
    /\ idMap' = <<>>
    /\ mu' = [w |-> "none", r |-> {}]
    /\ loc' = [p \in AllProcs |-> NoLoc]
    /\ ret' = [p \in AllProcs |-> NoRet]
    /\ addLog' = <<>>
    /\ allDim' = TRUE
    /\ installs' = 0
    /\ emptyAtInstall' = FALSE
    /\ run' = [p \in Procs |-> NoRun]
    /\ trace' = [p \in Procs |-> <<>>]
    /\ made' = [p \in Procs |-> {}]
    /\ UNCHANGED <<gcs, docs, savedFrom, calls, env, avars, reply, certs,
                   leaves, badges, runs>>

\* the asset whose trigger is delivered, and what the two calls answer
TheUser == "u"
TheAsset == "a"
TheText ==
    <<Tok("cs"), Tok("sp"), Num(98), Tok("nl"), Tok("j"), Tok("sp"), Tok("w")>>
TheVec == Vec(Dim, 2)

\* the first process finds no snapshot and an empty collection, or the
\* snapshot an earlier process built and saved from document b
RedeliverBoots ==
    {[docs |-> [a |-> NoDoc, b |-> NoDoc], gcs |-> <<>>,
      savedFrom |-> [rows |-> <<>>, idMap |-> <<>>]],
     [docs |-> [a |-> NoDoc, b |-> Doc(Embedding(F64(Dim, 1)), <<>>)],
      gcs |-> <<WriteIndex(BuiltIndex(<<Vec(Dim, 1)>>))>>,
      savedFrom |-> [rows |-> BuiltIndex(<<Vec(Dim, 1)>>),
                     idMap |-> BuiltIdMap(<<"b">>)]]}

RedeliverInit ==
    /\ MgrInit
    /\ AuthIdle
    /\ boot = FirstBoot
    /\ reply = NoReply
    /\ pc = [p \in AllProcs |-> IF p = "main" THEN "m_start" ELSE "idle"]
    /\ \E b \in RedeliverBoots :
          docs = b.docs /\ gcs = b.gcs /\ savedFrom = b.savedFrom
    /\ calls = 0
    /\ env = [project |-> TRUE, trillian |-> "ok"]
    /\ NoRuns

RedeliverNext ==
    \* main
    \/ LoadCall("main", "m_start") /\ Quiet
    \/ LoadFetch("main", "m_loaded", "none") /\ Quiet
    \/ LoadLock("main") /\ Quiet
    \/ LoadInstall("main", "m_loaded") /\ Quiet
    \/ MainHasIndex
    \/ HasIndexEnter("main") /\ Quiet
    \/ HasIndexExit("main", "m_checked") /\ Quiet
    \/ MainBuild
    \/ BuildScan("main", "m_built", "none") /\ Quiet
    \/ BuildLock("main") /\ Quiet
    \/ BuildInstall("main", "m_built") /\ Quiet
    \/ MainSave
    \/ SaveEnter("main") /\ Quiet
    \/ SaveCheck("main", "m_saved") /\ Quiet
    \/ SaveHeader("main") /\ Quiet
    \/ SaveWrite("main", "m_saved", "none") /\ Quiet
    \/ Serve
    \/ Restart
    \* the runs
    \/ \E p \in Procs :
        \/ Redeliver(p, TheUser, TheAsset)
        \/ Fetch(p, "none")
        \/ AnalysisReturns(p, TheText, Nil)
        \/ EmbeddingReturns(p, TheVec, Nil)
        \/ Join(p)
        \/ PipeSearch(p)
        \/ SearchEnter(p) /\ Quiet
        \/ SearchExit(p, "p_searched") /\ Quiet
        \/ PipeAdd(p)
        \/ AddEnter(p) /\ Quiet
        \/ PipeAdded(p)
        \/ PipeAddFails(p)
        \/ \E t \in Times : Commit(p, "none", t)
        \/ Certify(p, "none")
        \/ \E f \in LogFaults : QueueLeaf(p, f)
        \/ RecordLeaf(p, "none")
        \/ Badge(p, "none")
    \* the API
    \/ \E id \in Ids, f \in VerifyFaults : Verify(id, f)

SpecRedeliver == RedeliverInit /\ [][RedeliverNext]_vars

(***************************************************************************)
(* Properties of the manager, checked under Spec.                          *)
(***************************************************************************)
WriterCs == {"add_cs", "load_cs", "build_cs"}
ReaderCs == {"search_cs", "has_cs"}

AddInCs == \E p \in AllProcs : pc[p] = "add_cs"
\* the Adds that have returned
AddsDone == IF AddInCs THEN Len(addLog) - 1 ELSE Len(addLog)

Leaves(p, at) == pc[p] = at /\ pc'[p] # at

\* C1: on a manager whose first installed index was empty and that has
\* since seen only Adds of Dim-component vectors, the index holds one vector
\* per returned Add, the id-map's keys are exactly 0..M-1, key i maps to the
\* id of the i-th Add to take the write lock, and an Add inside its critical
\* section has read the next free id.
C1_MonotonicIds ==
    (installs = 1 /\ emptyAtInstall /\ allDim) =>
        /\ index # <<>>
        /\ Ntotal(index[1]) = AddsDone
        /\ DOMAIN idMap = 0..(AddsDone - 1)
        /\ \A i \in 0..(AddsDone - 1) : idMap[i] = addLog[i + 1]
        /\ \A p \in AllProcs : pc[p] = "add_cs" => loc[p].newID = AddsDone

\* two clients' Adds of different ids have both returned success
C1_Witness ==
    /\ installs = 1 /\ emptyAtInstall /\ allDim
    /\ Len(addLog) = 2 /\ addLog[1] # addLog[2]
    /\ \A p \in Procs : pc[p] = "idle" /\ ret[p] = [op |-> "Add", err |-> Nil]

\* C2 (as claimed): when a fresh manager installs the snapshot a Save wrote,
\* its vectors and its id-map are those of the saving manager.
C2_RoundTrip ==
    [][\A p \in AllProcs :
        (/\ Leaves(p, "load_cs")
         /\ installs = 0
         /\ gcs # <<>>
         /\ loc[p].obj = ReadIndex(gcs[1]))
        => (index' = <<savedFrom.rows>> /\ idMap' = savedFrom.idMap)]_vars

\* C3: while an Add, or the installing step of Build or Load, is inside its
\* critical section, no Search, no HasIndex and no other mutation is inside
\* its own.
C3_Exclusion ==
    \A p, q \in AllProcs :
        (p # q /\ pc[p] \in WriterCs) => pc[q] \notin (WriterCs \cup ReaderCs)

\* a Search and a HasIndex overlap, on a manager a writer has installed an
\* index on
C3_Witness ==
    /\ installs = 1
    /\ \E p, q \in Procs : pc[p] = "search_cs" /\ pc[q] = "has_cs"

\* C4 (as claimed): an Add or a Search with a vector of any other length
\* than Dim returns an error and leaves index and id-map as they were.
C4_DimensionEnforced ==
    [][\A p \in AllProcs :
        /\ (Leaves(p, "add_cs") /\ VLen(loc[p].vec) # Dim)
           => (ret'[p].err # Nil /\ index' = index /\ idMap' = idMap)
        /\ (Leaves(p, "search_cs") /\ VLen(loc[p].vec) # Dim)
           => (ret'[p].err # Nil /\ index' = index /\ idMap' = idMap)]_vars

\* C8: a Search that finds no index installed, or an installed index with
\* no vector, returns empty distances, empty ids and no error, whatever the
\* query vector and k.
C8_EmptySearch ==
    [][\A p \in AllProcs :
        (Leaves(p, "search_cs") /\ IndexState \in {"nil", "empty"})
        => ret'[p] = [op |-> "Search", err |-> Nil, panic |-> FALSE,
                      dists |-> <<>>, ids |-> <<>>]]_vars

\* one client has built an index without vectors and then searched it
C8_Witness ==
    /\ IndexState = "empty"
    /\ calls = 2
    /\ pc["p1"] = "idle" /\ ret["p1"].op = "Search" /\ ret["p1"].ids = <<>>
    /\ ret["p2"] = NoRet

\* C9: an Add or a Save that finds no index installed returns its explicit
\* error, with index, id-map and snapshot object as they were, and the call
\* is over.
C9_NoIndexErrors ==
    [][\A p \in AllProcs :
        /\ (Leaves(p, "add_wait") /\ index = <<>>)
           => /\ ret'[p] = [op |-> "Add", err |-> ErrNotInitialized]
              /\ pc'[p] = "idle"
              /\ UNCHANGED <<index, idMap, gcs>>
        /\ (Leaves(p, "save_cs") /\ index = <<>>)
           => /\ ret'[p] = [op |-> "Save", err |-> ErrNoIndexToSave]
              /\ pc'[p] = "idle"
              /\ UNCHANGED <<index, idMap, gcs>>]_vars

\* an Add and a Save have both been refused on a manager without index
C9_Witness ==
    /\ index = <<>> /\ idMap = <<>> /\ gcs = <<>>
    /\ ret["p1"] = [op |-> "Add", err |-> ErrNotInitialized]
    /\ ret["p2"] = [op |-> "Save", err |-> ErrNoIndexToSave]

\* C10: the download step of Load never changes index or id-map; with no
\* snapshot object it ends the call, successfully unless storage itself
\* failed; with a snapshot object it ends the call only with an error.
C10_LoadFailures ==
    [][\A p \in AllProcs :
        Leaves(p, "load_io") =>
            /\ UNCHANGED <<index, idMap>>
            /\ gcs = <<>> => /\ pc'[p] = "idle"
                             /\ ret'[p].op = "Load"
                             /\ ret'[p].err \in {Nil, "storage"}
            /\ (gcs # <<>> /\ pc'[p] = "idle")
               => /\ ret'[p].op = "Load"
                  /\ ret'[p].err \in {"storage", "tempfile", "decode"}]_vars

\* on a fresh manager one Load found no snapshot and returned success, one
\* failed on storage, and HasIndex is still false
C10_Witness ==
    /\ index = <<>> /\ idMap = <<>> /\ gcs = <<>> /\ installs = 0
    /\ ret["p1"] = [op |-> "Load", err |-> Nil]
    /\ ret["p2"] = [op |-> "Load", err |-> "storage"]

(***************************************************************************)
(* Properties of the pipeline, checked under SpecWorker.                   *)
(***************************************************************************)
\* both calls of the run's fork have returned
Joined(p) == run[p].ana = "done" /\ run[p].emb = "done"

\* the run is over
Over(p) == pc[p] = "idle" /\ trace[p] # <<>>

\* p takes a step of its run
Steps(p) == pc'[p] # pc[p]

Outputs == <<docs, certs, leaves, badges>>

\* C5: a run has written an Asset document only if its analysis call and
\* its embedding call both returned without error; a run in which either
\* failed has not called saveAsset and has written no document, certificate,
\* leaf or badge, and none of its steps changes the document store, the
\* certificates, the log or the badges.
C5_CommitGate ==
    /\ [](\A p \in Procs :
            /\ "asset" \in made[p]
               => Joined(p) /\ run[p].anaErr = Nil /\ run[p].embErr = Nil
            /\ (Joined(p) /\ (run[p].anaErr # Nil \/ run[p].embErr # Nil))
               => made[p] = {} /\ "saveAsset" \notin Range(trace[p]))
    /\ [][\A p \in Procs :
            (Steps(p) /\ Joined(p)
                      /\ (run[p].anaErr # Nil \/ run[p].embErr # Nil))
            => UNCHANGED Outputs]_vars

\* a run whose two calls succeeded has written document, certificate and
\* badge and is over
C5_Witness ==
    \E p \in Procs :
        /\ Over(p)
        /\ run[p].anaErr = Nil /\ run[p].embErr = Nil
        /\ {"asset", "certificate", "badge"} \subseteq made[p]
        /\ docs[run[p].asset] # <<>>
        /\ docs[run[p].asset][1].raw_analysis = run[p].text

\* C6 (as claimed): a run in which exactly one of the two calls failed has
\* called neither Search nor Add.
C6_NoIndexCallOnEitherFailure ==
    \A p \in Procs :
        (Joined(p) /\ ((run[p].anaErr = Nil) # (run[p].embErr = Nil)))
        => /\ "Search" \notin Range(trace[p])
           /\ "Add" \notin Range(trace[p])

\* C6 (amended): a run whose embedding call failed calls neither Search nor
\* Add and none of its steps changes index or id-map; a run whose analysis
\* call failed and whose embedding call succeeded calls Search and then Add
\* with the embedding before it ends, and writes no Asset document.
C6_IndexCallFollowsEmbedding ==
    /\ [](\A p \in Procs :
            /\ (Joined(p) /\ run[p].embErr # Nil)
               => /\ "Search" \notin Range(trace[p])
                  /\ "Add" \notin Range(trace[p])
            /\ (Over(p) /\ Joined(p)
                        /\ run[p].anaErr # Nil /\ run[p].embErr = Nil)
               => /\ trace[p] = <<"fetch", "analysis", "embedding",
                                  "Search", "Add">>
                  /\ made[p] = {})
    /\ [][\A p \in Procs :
            (Steps(p) /\ Joined(p) /\ run[p].embErr # Nil)
            => UNCHANGED <<index, idMap>>]_vars

\* a run whose analysis call failed and whose embedding call succeeded is
\* over, and its Add has put the asset's id into the id-map
C6_Witness ==
    \E p \in Procs :
        /\ Over(p)
        /\ run[p].anaErr # Nil /\ run[p].embErr = Nil
        /\ ret[p] = [op |-> "Add", err |-> Nil]
        /\ \E i \in DOMAIN idMap : idMap[i] = run[p].asset
        /\ docs[run[p].asset] = <<>>

\* C7: a run whose fetch failed is over, has started no analysis and no
\* embedding call, no Search and no Add, and has written nothing; the
\* failing step changes neither the index, the id-map nor any store.
C7_FetchFailureStops ==
    /\ [](\A p \in Procs :
            run[p].fetchErr # Nil
            => /\ pc[p] = "idle"
               /\ trace[p] = <<"fetch">>
               /\ made[p] = {}
               /\ run[p].ana = "none" /\ run[p].emb = "none")
    /\ [][\A p \in Procs :
            (pc[p] = "p_fetch" /\ run'[p].fetchErr # Nil)
            => UNCHANGED <<index, idMap, Outputs>>]_vars

\* a run's fetch has failed
C7_Witness ==
    \E p \in Procs :
        /\ Over(p)
        /\ run[p].fetchErr = "storage"
        /\ run[p].asset \in Ids

(***************************************************************************)
(* Properties of Build, checked under SpecBuild.                           *)
(***************************************************************************)
\* the documents that hold an embedding array, in scan order
Embedded(coll) ==
    SelectSeq(DocOrder, LAMBDA id : /\ coll[id] # <<>>
                                    /\ coll[id][1].embedding # <<>>
                                    /\ coll[id][1].embedding[1].arr)

\* the document's asset-identifier string when it has one, else its own id
ExternalId(coll, id) ==
    IF coll[id][1].assetId # <<>> /\ coll[id][1].assetId[1].str
    THEN coll[id][1].assetId[1].s
    ELSE id

\* the embedding is one stretch of Dim equal floats
IsDimFloats(elems) ==
    Len(elems) = 1 /\ elems[1].n = Dim /\ elems[1].v[1] = "f"

\* C11: a Build that succeeds installs an index with one vector per scanned
\* document that holds an embedding array, and an id-map with keys 0..n-1;
\* the k-th such document (from 0) has key k, mapped to the document's
\* asset-identifier string when it has one and else to the document's id,
\* and its embedding of Dim floats is the vector at position k.
C11_BuildOrder ==
    [][Leaves("main", "build_cs") =>
        LET E == Embedded(docs)
        IN  /\ ret'["main"] = [op |-> "Build", err |-> Nil]
            /\ index' # <<>>
            /\ Ntotal(index'[1]) = Len(E)
            /\ DOMAIN idMap' = 0..(Len(E) - 1)
            /\ \A k \in 0..(Len(E) - 1) :
                /\ idMap'[k] = ExternalId(docs, E[k + 1])
                /\ IsDimFloats(docs[E[k + 1]][1].embedding[1].elems)
                   => index'[1][k + 1] =
                        Vec(Dim, docs[E[k + 1]][1].embedding[1].elems[1].v[2])]_vars

\* a Build has installed two documents' vectors, the second under its
\* asset-identifier field
C11_Witness ==
    /\ ret["main"] = [op |-> "Build", err |-> Nil]
    /\ index = <<<<Vec(Dim, 1), Vec(Dim, 2)>>>>
    /\ idMap = BuiltIdMap(<<"a", "z">>)
    /\ docs["b"][1].assetId # <<>>

(***************************************************************************)
(* Properties of parseAnalysis, checked under SpecParse.                   *)
(***************************************************************************)
Labels(txt, k) == {i \in 1..Len(txt) : txt[i].k = k}

\* the text has a score label followed, after blanks, by a number of 0.0 to
\* 1.0, and a justification label followed, after blanks, by one line that
\* a blank line or the end of the text ends
HasScoreAndJustification(txt) ==
    /\ \E i \in Labels(txt, "cs") :
        /\ SkipSpace(txt, i + 1) <= Len(txt)
        /\ txt[SkipSpace(txt, i + 1)].k = "num"
        /\ txt[SkipSpace(txt, i + 1)].v <= 100
    /\ \E i \in Labels(txt, "j") : CapturesFrom(txt, SkipSpace(txt, i + 1))

\* x * 100, cut to an integer, of the first score label's number
StatedScore(txt) == txt[SkipSpace(txt, Min(Labels(txt, "cs")) + 1)].v

\* the line after the first justification label
StatedNarrative(txt) ==
    SubSeq(txt, SkipSpace(txt, Min(Labels(txt, "j")) + 1),
           LineEnd(txt, SkipSpace(txt, Min(Labels(txt, "j")) + 1)))

Parsed1 == ret["p1"].op = "parseAnalysis"

\* C12 (as claimed): for a text with a score x of 0.0 to 1.0 and a one-line
\* justification t, parseAnalysis returns x scaled by 100 and truncated, t
\* verbatim, and no error.
C12_ParseSuccess ==
    (Parsed1 /\ HasScoreAndJustification(run["p1"].text))
    => /\ ret["p1"].err = Nil
       /\ ret["p1"].score = StatedScore(run["p1"].text)
       /\ ret["p1"].narrative = StatedNarrative(run["p1"].text)

\* C13: for a text without score label or without justification label
\* parseAnalysis returns an error, score 0 and an empty narrative.
C13_ParseMissingLabel ==
    (Parsed1 /\ (Labels(run["p1"].text, "cs") = {}
                 \/ Labels(run["p1"].text, "j") = {}))
    => /\ ret["p1"].err # Nil
       /\ ret["p1"].score = 0
       /\ ret["p1"].narrative = <<>>

\* a text with the score 0.98 and no justification label has been parsed
C13_Witness ==
    /\ Parsed1
    /\ Labels(run["p1"].text, "j") = {}
    /\ \E i \in Labels(run["p1"].text, "cs") :
         i < Len(run["p1"].text) /\ run["p1"].text[i + 1] = Num(98)
    /\ ret["p1"].err = "justification text not found in raw text"

(***************************************************************************)
(* Properties of the later pipeline stages, checked under SpecWorker.      *)
(***************************************************************************)
\* both calls succeeded and the run is past its join
BothOk(p) ==
    Joined(p) /\ pc[p] # "p_forked" /\ run[p].anaErr = Nil /\ run[p].embErr = Nil

Unparsed(p) == parseAnalysis(run[p].text).err # Nil

Called(p, what) == what \in Range(trace[p])

\* C14: in a run whose two calls succeeded and whose analysis text does not
\* parse, the run carries score 0 and the raw text as narrative, Search and
\* Add are called before saveAsset, saveAsset is called before the run
\* ends, the document it writes holds score 0 and the raw text as narrative,
\* and after each stage that succeeded the next one is attempted:
\* certificate after the document, log append (when configured) and badge
\* after the certificate.
C14_ParseFailureContinues ==
    /\ [](\A p \in Procs :
            (BothOk(p) /\ Unparsed(p))
            => /\ run[p].score = 0 /\ run[p].narrative = run[p].text
               /\ Called(p, "saveAsset")
                  => Called(p, "Search") /\ Called(p, "Add")
               /\ Over(p) => Called(p, "saveAsset")
               /\ (Over(p) /\ "asset" \in made[p]) => Called(p, "certificate")
               /\ (Over(p) /\ "certificate" \in made[p])
                  => /\ Called(p, "badge")
                     /\ env.trillian = "ok" => Called(p, "queueLeaf"))
    /\ [][\A p \in Procs :
            (BothOk(p) /\ Unparsed(p) /\ pc[p] = "p_commit"
                       /\ pc'[p] = "p_cert")
            => /\ docs'[run[p].asset] # <<>>
               /\ docs'[run[p].asset][1].originality_score = 0
               /\ docs'[run[p].asset][1].narrative = run[p].text
               /\ docs'[run[p].asset][1].raw_analysis = run[p].text]_vars

\* a run whose analysis text did not parse has written document,
\* certificate, leaf and badge
C14_Witness ==
    \E p \in Procs :
        /\ Over(p) /\ BothOk(p) /\ Unparsed(p)
        /\ run[p].text # <<>>
        /\ {"asset", "certificate", "leaf", "badge"} \subseteq made[p]
        /\ docs[run[p].asset][1].originality_score = 0
        /\ docs[run[p].asset][1].narrative = run[p].text

\* the run has written its document and is at one of the later stages
Downstream(p) == pc[p] \in {"p_cert", "p_log", "p_record", "p_badge"}

\* C15: a run that has written its Asset document finds the document in the
\* store in every later state, and no step of the certificate, log, record
\* or badge stage, failed or not, removes the document or changes any of
\* its fields other than trillian_leaf_index, which once set stays set.
C15_AssetDurable ==
    /\ [](\A p \in Procs :
            "asset" \in made[p] => docs[run[p].asset] # <<>>)
    /\ [][\A p \in Procs :
            (Downstream(p) /\ Steps(p))
            => /\ docs'[run[p].asset] # <<>>
               /\ [docs'[run[p].asset][1] EXCEPT !.trillian_leaf_index = <<>>]
                  = [docs[run[p].asset][1] EXCEPT !.trillian_leaf_index = <<>>]
               /\ docs[run[p].asset][1].trillian_leaf_index # <<>>
                  => docs'[run[p].asset][1].trillian_leaf_index # <<>>
               /\ \A a \in Ids \ {run[p].asset} : docs'[a] = docs[a]]_vars

\* a run has recorded its leaf index, its badge upload has failed, and its
\* document is in the store as saveAsset wrote it, with the leaf index
C15_Witness ==
    \E p \in Procs :
        /\ Over(p) /\ "position" \in made[p] /\ "badge" \notin made[p]
        /\ docs[run[p].asset]
           = <<WithLeafIndex(Asset(run[p], run[p].created), run[p].leafIndex)>>

\* the certificate stage of the run was entered and did not succeed
CertifyFailed(p) == Called(p, "certificate") /\ "certificate" \notin made[p]

\* C16: a run whose certificate generation, serialization or upload failed
\* is over, has called neither queueLeafInTrillian nor the leaf-index
\* Update nor the badge stage, and has written no leaf, no leaf index and
\* no badge; the failing step changes neither the log nor the badges nor
\* the document store.
C16_CertifyFailureStops ==
    /\ [](\A p \in Procs :
            CertifyFailed(p)
            => /\ Over(p)
               /\ ~Called(p, "queueLeaf") /\ ~Called(p, "update")
               /\ ~Called(p, "badge")
               /\ made[p] \cap {"leaf", "position", "badge"} = {})
    /\ [][\A p \in Procs :
            (pc[p] = "p_cert" /\ Steps(p) /\ "certificate" \notin made'[p])
            => UNCHANGED <<docs, certs, leaves, badges>>]_vars

\* a run with the log configured has written its document, failed at the
\* certificate stage and ended
C16_Witness ==
    \E p \in Procs :
        /\ CertifyFailed(p) /\ Over(p)
        /\ "asset" \in made[p]
        /\ env.trillian = "ok" /\ env.project
        /\ certs[run[p].asset] = <<>> /\ leaves = <<>>

\* the run has left the log stage without a leaf
NoLeaf(p) ==
    /\ "certificate" \in made[p] /\ pc[p] # "p_log" /\ "leaf" \notin made[p]

\* C17: the step that leaves the log stage with the log variables unset or
\* malformed, or with a failed append, goes to the badge stage and changes
\* neither the document store nor the log nor what the run has written
\* (with the variables unset or malformed it makes no call either); a run
\* that left the log stage without a leaf never calls the leaf-index Update,
\* records no leaf index, and calls the badge stage before it ends.
C17_LogSkippedOrFailed ==
    /\ [][\A p \in Procs :
            (pc[p] = "p_log" /\ Steps(p)
               /\ (env.trillian # "ok" \/ "leaf" \notin made'[p]))
            => /\ pc'[p] = "p_badge"
               /\ UNCHANGED <<docs, leaves, made>>
               /\ env.trillian # "ok" => UNCHANGED trace]_vars
    /\ [](\A p \in Procs :
            NoLeaf(p)
            => /\ pc[p] \in {"p_badge", "idle"}
               /\ ~Called(p, "update") /\ "position" \notin made[p]
               /\ Over(p) => Called(p, "badge"))

\* a run whose append failed has uploaded its badge and ended, and its
\* document carries no leaf index
C17_Witness ==
    \E p \in Procs :
        /\ Over(p) /\ NoLeaf(p)
        /\ Called(p, "queueLeaf") /\ "badge" \in made[p]
        /\ docs[run[p].asset] = <<Asset(run[p], run[p].created)>>
        /\ docs[run[p].asset][1].trillian_leaf_index = <<>>

\* the leaf index document a carries, <<>> when it carries none
Position(store, a) ==
    IF store[a] = <<>> \/ "trillian_leaf_index" \notin DOMAIN store[a][1]
    THEN <<>>
    ELSE store[a][1].trillian_leaf_index

\* C18: a step gives the document of asset a a leaf index only as the
\* leaf-index Update of a run on a that has uploaded its certificate and
\* then had queueLeafInTrillian succeed for the SHA-256 digest of that
\* certificate, and the index written is the one that call returned; a run
\* has recorded a leaf index only if it uploaded a certificate and appended
\* a leaf, and a run without a leaf never reaches the Update.
C18_PositionOnlyAfterAppend ==
    /\ [][\A a \in Ids :
            (Position(docs', a) # <<>> /\ Position(docs', a) # Position(docs, a))
            => \E p \in Procs :
                 /\ pc[p] = "p_record" /\ pc'[p] = "p_badge"
                 /\ run[p].asset = a
                 /\ {"certificate", "leaf"} \subseteq made[p]
                 /\ run[p].cert # <<>>
                 /\ Position(docs', a) = <<run[p].leafIndex>>
                 /\ run[p].leafIndex + 1 \in DOMAIN leaves
                 /\ leaves[run[p].leafIndex + 1] = <<"sha256", run[p].cert[1]>>
                 /\ \E i, j \in DOMAIN trace[p] :
                      /\ i < j
                      /\ trace[p][i] = "certificate"
                      /\ trace[p][j] = "queueLeaf"]_vars
    /\ [](\A p \in Procs :
            /\ "position" \in made[p]
               => {"certificate", "leaf"} \subseteq made[p]
            /\ (pc[p] = "p_record" \/ Called(p, "update"))
               => "leaf" \in made[p])

\* a run has appended its certificate's digest and its document carries the
\* index the append returned
C18_Witness ==
    \E p \in Procs :
        /\ "position" \in made[p]
        /\ Position(docs, run[p].asset) = <<run[p].leafIndex>>
        /\ leaves[run[p].leafIndex + 1] = <<"sha256", certs[run[p].asset][1]>>

(***************************************************************************)
(* Properties of certificate.Generate, checked under SpecCert.             *)
(***************************************************************************)
Generated(p) == ret[p].op = "Generate" /\ ret[p].arg # <<>>

Credential(p) == ret[p].credential[1]

ProofValue(p) == Credential(p).proofValue

\* C19: two Generate calls on Assets with equal id and equal creation time
\* return equal proof values, and two Generate calls on Assets that differ
\* in id or in creation time, by however little, return different proof
\* values.
C19_ProofDeterminism ==
    \A p, q \in Procs :
        (Generated(p) /\ Generated(q))
        => /\ (run[p].asset = run[q].asset /\ run[p].created = run[q].created)
              => ProofValue(p) = ProofValue(q)
           /\ (run[p].asset # run[q].asset \/ run[p].created # run[q].created)
              => ProofValue(p) # ProofValue(q)

\* C20: the rating value of the credential Generate returns is the
\* originality score of its Asset when that lies in 1..10, 1 when the score
\* is below 1 and 10 when it is above 10, so it lies between WorstRating 1
\* and BestRating 10.
C20_RatingClamped ==
    \A p \in Procs :
        Generated(p)
        => /\ ret[p].err = Nil /\ ret[p].credential # <<>>
           /\ run[p].score < 1 => Credential(p).ratingValue = 1
           /\ run[p].score > 10 => Credential(p).ratingValue = 10
           /\ run[p].score \in 1..10
              => Credential(p).ratingValue = run[p].score
           /\ Credential(p).ratingValue \in 1..10

\* Generate has returned for a score above 10 and for a score within 1..10
C20_Witness ==
    /\ Generated("p1") /\ run["p1"].score > 10
    /\ Credential("p1").ratingValue = 10
    /\ Generated("p2") /\ run["p2"].score \in 1..10
    /\ Credential("p2").ratingValue = run["p2"].score

\* C21: the narrative of the credential Generate returns is the narrative
\* of its Asset when that is not empty, and the raw analysis text of the
\* Asset when the narrative is empty.
C21_NarrativeFallback ==
    \A p \in Procs :
        Generated(p)
        => /\ run[p].narrative # <<>>
              => Credential(p).narrative = run[p].narrative
           /\ run[p].narrative = <<>>
              => Credential(p).narrative = run[p].text

\* Generate has returned for an Asset with an empty narrative and a raw
\* analysis text, and the credential carries the raw text
C21_Witness ==
    /\ Generated("p2")
    /\ run["p2"].narrative = <<>> /\ run["p2"].text # <<>>
    /\ Credential("p2").narrative = run["p2"].text

\* C22: Generate called with a nil reference returns an error and no
\* credential; called with an Asset, whatever its id, time, score, narrative
\* and raw text, it returns a credential and a nil error, and the Asset is
\* after the call what it was before.
C22_GenerateNil ==
    \A p \in Procs :
        ret[p].op = "Generate"
        => /\ ret[p].arg = <<>>
              => ret[p].err # Nil /\ ret[p].credential = <<>>
           /\ ret[p].arg # <<>>
              => /\ ret[p].err = Nil /\ ret[p].credential # <<>>
                 /\ ret[p].asset = ret[p].arg
                 /\ ret[p].asset = <<Asset(run[p], run[p].created)>>

\* Generate has returned for nil and for an Asset
C22_Witness ==
    /\ ret["p1"].op = "Generate" /\ ret["p1"].arg = <<>>
    /\ ret["p1"].err = "asset cannot be nil"
    /\ Generated("p2") /\ ret["p2"].err = Nil

(***************************************************************************)
(* Properties of the auth package, checked under SpecAuth.                 *)
(***************************************************************************)
\* the header is the word Bearer, in any case, one space and a token
BearerToken(h) ==
    /\ Len(h) = 3
    /\ h[1] \in {"Bearer", "bearer", "BEARER"}
    /\ h[2] = " "
    /\ h[3] # " "

\* C23: when the middleware answers a request, it calls the wrapped handler
\* exactly if the Authorization header is "Bearer <token>" (the scheme in
\* any case), the Firebase client is initialised and the token verification
\* succeeded, and the context it passes holds the verified user id; in
\* every other case the wrapped handler is not called and the answer is
\* 401, or 500 when the header has that form and the client is not
\* initialised.  A request once answered is not served later.
C23_VerifiedOnly ==
    [][/\ (http.state = "received" /\ http'.state = "answered")
          => /\ http'.served
                <=> /\ BearerToken(http.header)
                    /\ firebaseClient # <<>>
                    /\ http'.verified # <<>>
             /\ http'.served
                => /\ http'.userID = http'.verified
                   /\ http'.userID \in {<<u>> : u \in Users}
                   /\ http'.status = 0
             /\ ~http'.served
                => /\ http'.userID = <<>>
                   /\ http'.status =
                        IF BearerToken(http.header) /\ firebaseClient = <<>>
                        THEN 500 ELSE 401
       /\ http.state = "answered" => http' = http
       /\ http'.served => http'.state = "answered"]_vars

\* a request with a bearer token was handed to the wrapped handler with the
\* verified user id
C23_Witness ==
    /\ http.state = "answered" /\ http.served
    /\ http.header = <<"bearer", " ", "t">>
    /\ http.userID = <<"u">>

(***************************************************************************)
(* Properties of the order of a run, checked under SpecWorker.             *)
(***************************************************************************)
\* the run is past wg.Wait()
PastJoin(p) ==
    \/ pc[p] \in {"p_index", "p_searched", "p_commit", "p_cert", "p_log",
                  "p_record", "p_badge"}
    \/ pc[p] \in {"search_cs", "add_cs"}
    \/ Called(p, "Search") \/ Called(p, "Add") \/ Called(p, "saveAsset")

\* C24: a run is past wg.Wait() (it has parsed, called Search or Add, or
\* taken the commit decision) only when its analysis call and its embedding
\* call have both returned; while one of them is still running the run stays
\* at the join whatever the other returned, and the return of one call
\* leaves the other call as it is; what a call returned is not changed
\* afterwards, and the step past the join parses the returned text and
\* goes to Search or to the commit decision by the returned embedding error.
C24_ForkJoin ==
    /\ [](\A p \in Procs :
            /\ PastJoin(p) => run[p].ana = "done" /\ run[p].emb = "done"
            /\ (run[p].ana = "running" \/ run[p].emb = "running")
               => pc[p] = "p_forked")
    /\ [][\A p \in Procs :
            /\ (run[p].ana = "running" /\ run'[p].ana = "done")
               => /\ run'[p].emb = run[p].emb /\ run'[p].vec = run[p].vec
                  /\ run'[p].embErr = run[p].embErr
                  /\ pc'[p] = "p_forked"
            /\ (run[p].emb = "running" /\ run'[p].emb = "done")
               => /\ run'[p].ana = run[p].ana /\ run'[p].text = run[p].text
                  /\ run'[p].anaErr = run[p].anaErr
                  /\ pc'[p] = "p_forked"
            /\ (run[p].ana = "done" /\ run'[p].ana = "done")
               => /\ run'[p].text = run[p].text
                  /\ run'[p].anaErr = run[p].anaErr
            /\ (run[p].emb = "done" /\ run'[p].emb = "done")
               => /\ run'[p].vec = run[p].vec
                  /\ run'[p].embErr = run[p].embErr
            /\ (pc[p] = "p_forked" /\ pc'[p] # "p_forked")
               => /\ pc'[p] = IF run[p].embErr = Nil THEN "p_index"
                              ELSE "p_commit"
                  /\ run[p].anaErr = Nil
                     => run'[p].score
                        = IF parseAnalysis(run[p].text).err = Nil
                          THEN parseAnalysis(run[p].text).score ELSE 0]_vars

\* the analysis call failed, the embedding call returned a
\* vector, and the run went on to Search and Add and ended
C24_Witness ==
    \E p \in Procs :
        /\ run[p].anaErr # Nil /\ run[p].embErr = Nil
        /\ run[p].vec # <<>>
        /\ Called(p, "Search") /\ Called(p, "Add")
        /\ Over(p)

\* the calls of a run in the order processImage makes them
StageOrder == <<"fetch", "analysis", "embedding", "Search", "Add",
                "saveAsset", "certificate", "queueLeaf", "update", "badge">>

Rank(what) == CHOOSE i \in DOMAIN StageOrder : StageOrder[i] = what

\* where the run stands when it starts the call
StartsAt(what) ==
    CASE what = "fetch" -> "p_fetch"
      [] what = "Search" -> "p_index"
      [] what = "Add" -> "p_searched"
      [] what = "saveAsset" -> "p_commit"
      [] what = "certificate" -> "p_cert"
      [] what = "queueLeaf" -> "p_log"
      [] what = "update" -> "p_record"
      [] what = "badge" -> "p_badge"

\* C25: the calls a run has started are in the order fetch, analysis and
\* embedding, Search, Add, saveAsset, certificate, queueLeaf, leaf-index
\* Update, badge, none of them twice; the text is parsed before Search is
\* called; and each call is started from the point the run reaches when the
\* call before it has returned: Add only with the result of Search in hand,
\* saveAsset (when Add was called) only with the result of Add in hand.
C25_StageOrder ==
    /\ [](\A p \in Procs :
            /\ \A i, j \in DOMAIN trace[p] :
                 /\ trace[p][i] \in Range(StageOrder)
                 /\ i < j => Rank(trace[p][i]) < Rank(trace[p][j])
            /\ Called(p, "Search") => pc[p] # "p_forked")
    /\ [][\A p \in Procs :
            trace'[p] # trace[p] /\ trace'[p] # <<>>
            => LET what == trace'[p][Len(trace[p]) + 1]
               IN  /\ Len(trace'[p]) > Len(trace[p])
                   /\ SubSeq(trace'[p], 1, Len(trace[p])) = trace[p]
                   /\ pc[p] = StartsAt(what)
                   /\ what = "Add" => ret[p].op = "Search"
                   /\ (what = "saveAsset" /\ Called(p, "Add"))
                      => ret[p].op = "Add"]_vars

\* a run has made every call
C25_Witness ==
    \E p \in Procs : trace[p] = StageOrder

(***************************************************************************)
(* Properties of the id-map, checked under Spec.                           *)
(***************************************************************************)
NoWriterInside == \A p \in AllProcs : pc[p] \notin WriterCs

\* C26 (as claimed): whenever no Add, Build or Load is inside its critical
\* section, the keys of the id-map are exactly 0..size-1 of the installed
\* index (no key when no index is installed).
C26_IdMapDescribesIndex ==
    NoWriterInside
    => DOMAIN idMap = IF index = <<>> THEN {}
                      ELSE 0..(Ntotal(index[1]) - 1)

\* C27 (as claimed): the step in which an Add, a Build or a Load leaves its
\* critical section keeps every pair of the id-map: each key is still a key
\* and maps to the same asset id.
C27_IdMapAppendOnly ==
    [][\A p \in AllProcs :
        (Leaves(p, "add_cs") \/ Leaves(p, "build_cs") \/ Leaves(p, "load_cs"))
        => \A key \in DOMAIN idMap :
              key \in DOMAIN idMap' /\ idMap'[key] = idMap[key]]_vars

\* Search or Add returned an error in the run
IndexFailed(p) == run[p].searchErr # Nil \/ run[p].addErr # Nil

\* C28: in a run whose analysis and embedding calls both succeeded, once
\* Search has returned an error the run is about to call Add or has called
\* it; and when Search or Add returned an error the run still calls
\* saveAsset before it ends, the step of the commit decision calls
\* saveAsset and, unless saveAsset itself fails, writes the document, and
\* the certificate, log and badge stages are attempted after it as in any
\* other run.
C28_IndexErrorsNotFatal ==
    /\ [](\A p \in Procs :
            BothOk(p)
            => /\ run[p].searchErr # Nil
                  => pc[p] = "p_searched" \/ Called(p, "Add")
               /\ IndexFailed(p)
                  => /\ Over(p) => Called(p, "saveAsset")
                     /\ (Over(p) /\ "asset" \in made[p])
                        => Called(p, "certificate")
                     /\ (Over(p) /\ "certificate" \in made[p])
                        => /\ Called(p, "badge")
                           /\ env.trillian = "ok" => Called(p, "queueLeaf"))
    /\ [][\A p \in Procs :
            (BothOk(p) /\ IndexFailed(p) /\ pc[p] = "p_commit" /\ Steps(p))
            => /\ "saveAsset" \in Range(trace'[p])
               /\ pc'[p] \in {"p_cert", "idle"}
               /\ pc'[p] = "p_cert"
                  => docs'[run[p].asset] = <<Asset(run[p], run'[p].created)>>]_vars

\* Search and Add both returned an error in a run that went on to write its
\* document, its certificate, a leaf and its badge
C28_Witness ==
    \E p \in Procs :
        /\ Over(p) /\ BothOk(p)
        /\ run[p].searchErr # Nil /\ run[p].addErr # Nil
        /\ Called(p, "Add")
        /\ {"asset", "certificate", "leaf", "badge"} \subseteq made[p]
        /\ docs[run[p].asset] # <<>>

\* C29 (as claimed): every document of the collection that carries an
\* originality_score carries one within 0..100.
C29_ScoreWithinRange ==
    \A a \in Ids :
        (docs[a] # <<>> /\ "originality_score" \in DOMAIN docs[a][1])
        => docs[a][1].originality_score \in 0..100

(***************************************************************************)
(* Justifications of several lines, checked under SpecParse.               *)
(***************************************************************************)
\* the last position before the next blank line, or the end of the text
RECURSIVE BlockEnd(_, _)
BlockEnd(txt, j) ==
    IF /\ j + 1 <= Len(txt)
       /\ ~(j + 2 <= Len(txt) /\ txt[j + 1].k = "nl" /\ txt[j + 2].k = "nl")
    THEN BlockEnd(txt, j + 1)
    ELSE j

\* where the text after the first justification label starts
AfterLabel(txt) == SkipSpace(txt, Min(Labels(txt, "j")) + 1)

\* the text has a score label with a number and a justification label
\* followed by text in which a single newline is followed by more text
\* before the next blank line or the end
HasLongJustification(txt) ==
    /\ \E i \in Labels(txt, "cs") :
        /\ SkipSpace(txt, i + 1) <= Len(txt)
        /\ txt[SkipSpace(txt, i + 1)].k = "num"
    /\ Labels(txt, "j") # {}
    /\ AfterLabel(txt) <= Len(txt)
    /\ \E k \in (AfterLabel(txt) + 1)..(BlockEnd(txt, AfterLabel(txt)) - 1) :
          txt[k].k = "nl" /\ txt[k + 1].k # "nl"

\* C30 (as claimed): for a text whose justification runs over more than one
\* line, parseAnalysis returns no error and, as narrative, the text from
\* after the label up to the next blank line or the end of the text.
C30_LongJustification ==
    (Parsed1 /\ HasLongJustification(run["p1"].text))
    => /\ ret["p1"].err = Nil
       /\ ret["p1"].narrative
          = SubSeq(run["p1"].text, AfterLabel(run["p1"].text),
                   BlockEnd(run["p1"].text, AfterLabel(run["p1"].text)))

(***************************************************************************)
(* Properties of redelivery and restart, checked under SpecRedeliver.      *)
(***************************************************************************)
\* the Add of the run has returned nil
Added(p) ==
    /\ Called(p, "Add")
    /\ pc[p] \notin {"add_wait", "add_cs"}
    /\ run[p].addErr = Nil

\* the labels the id-map gives to asset a, among the rows of the index
LabelsOf(a) ==
    IF index = <<>> THEN {}
    ELSE {l \in DOMAIN idMap : idMap[l] = a /\ l < Ntotal(index[1])}

\* C31: nothing de-duplicates deliveries of one asset id within a process:
\* every run whose embedding call succeeded calls Add before it ends,
\* whatever the index already holds; every Add that returns nil adds one row
\* to the index under a label the id-map did not hold and maps that label
\* to the asset id; so when both runs of the same asset id have had Add
\* return nil, the id-map gives that id to two distinct labels of the index.
C31_NoDeduplication ==
    /\ [](\A p \in Procs :
            (Over(p) /\ run[p].emb = "done" /\ run[p].embErr = Nil)
            => Called(p, "Add"))
    /\ [][\A p \in Procs :
            (pc[p] = "add_cs" /\ pc'[p] = "p_commit" /\ run'[p].addErr = Nil)
            => /\ Ntotal(index'[1]) = Ntotal(index[1]) + 1
               /\ Ntotal(index[1]) \notin DOMAIN idMap
               /\ Ntotal(index[1]) \in DOMAIN idMap'
               /\ idMap'[Ntotal(index[1])] = run[p].asset
               /\ \A l \in DOMAIN idMap :
                     l \in DOMAIN idMap' /\ idMap'[l] = idMap[l]]_vars
    /\ [](\A p, q \in Procs :
            (p # q /\ Added(p) /\ Added(q) /\ run[p].asset = run[q].asset)
            => \E i, j \in LabelsOf(run[p].asset) : i # j)

\* the trigger of one asset was delivered twice, both runs are over, and the
\* index holds two rows for it
C31_Witness ==
    /\ \A p \in Procs :
          /\ Over(p) /\ Added(p)
          /\ run[p].asset = TheAsset /\ run[p].embErr = Nil
    /\ Cardinality(LabelsOf(TheAsset)) = 2

\* C32 (as claimed): once the document of an asset carries a log position,
\* no step removes or changes it, whatever later runs on that asset do.
C32_PositionKept ==
    [][\A a \in Ids :
          Position(docs, a) # <<>> => Position(docs', a) = Position(docs, a)]_vars

(***************************************************************************)
(* Further properties of Build, checked under SpecBuild.                   *)
(***************************************************************************)
\* C33 (as claimed): every vector an installing Build has placed in the
\* index is, component for component, the embedding of Dim floats that some
\* document of the collection stores; an embedding of another length or with
\* a component that is no float gives no vector.
C33_BuildVectorsAsStored ==
    [][Leaves("main", "build_cs") =>
        \A k \in 1..Ntotal(index'[1]) :
            \E id \in Ids :
                /\ docs[id] # <<>>
                /\ docs[id][1].embedding # <<>>
                /\ docs[id][1].embedding[1].arr
                /\ IsDimFloats(docs[id][1].embedding[1].elems)
                /\ index'[1][k] =
                     Vec(Dim, docs[id][1].embedding[1].elems[1].v[2])]_vars

(***************************************************************************)
(* Further properties of the manager, checked under Spec.                  *)
(***************************************************************************)
\* C34 (as claimed): a Search with a query of Dim components on an installed
\* index that holds at least one vector, all added with Dim components,
\* returns at most k asset ids, and each of them is a non-empty id that the
\* id-map records for a vector the index holds.
C34_SearchReturnsRecordedIds ==
    [][\A p \in Procs :
          (/\ Leaves(p, "search_cs")
           /\ index # <<>> /\ Ntotal(index[1]) > 0
           /\ allDim /\ VLen(loc[p].vec) = Dim)
          => /\ ret'[p].op = "Search" /\ ret'[p].err = Nil
             /\ Len(ret'[p].ids) <= loc[p].k
             /\ \A i \in DOMAIN ret'[p].ids :
                   /\ ret'[p].ids[i] # ""
                   /\ \E l \in DOMAIN idMap :
                         /\ l < Ntotal(index[1])
                         /\ idMap[l] = ret'[p].ids[i]]_vars

\* C35 (as claimed): the snapshot a Save uploads is the file of the first n
\* vectors of the index object it read, for some n: the content that object
\* had at one instant, whatever Adds run beside the Save.
C35_SnapshotOfOneInstant ==
    [][\A p \in Procs :
          (Leaves(p, "save_data") /\ ret'[p].err = Nil)
          => \E n \in 0..Ntotal(ReadObject(p)) :
                gcs' = <<WriteIndex(SubSeq(ReadObject(p), 1, n))>>]_vars

(***************************************************************************)
(* Further properties of the worker, checked under SpecWorker.             *)
(***************************************************************************)
\* C36: main serves only after HasIndex returned true on the loaded index
\* or after Build and then Save returned nil, and a failed Load, Build or
\* Save leaves main only to the end of the process; while main serves an
\* index is installed and no step uninstalls it; a run is under way only
\* while main serves, so an Add that waits for the lock finds an index and
\* no Add of a run has returned the error of a missing index.
C36_ServesWithIndex ==
    /\ [](pc["main"] = "serving"
          => /\ index # <<>>
             /\ installs >= 1
             /\ \/ ret["main"] = [op |-> "HasIndex", val |-> TRUE]
                \/ ret["main"] = [op |-> "Save", err |-> Nil])
    /\ [](\A p \in Procs :
            /\ pc[p] # "idle" => pc["main"] = "serving"
            /\ pc[p] = "add_wait" => index # <<>>
            /\ ret[p].op = "Add" => ret[p].err # ErrNotInitialized)
    /\ [][/\ (pc["main"] = "serving" /\ index # <<>>) => index' # <<>>
          /\ pc["main"] = "serving" => pc'["main"] = "serving"
          /\ (/\ pc["main"] \in {"m_loaded", "m_built", "m_saved"}
              /\ ret["main"].op \in {"Load", "Build", "Save"}
              /\ ret["main"].err # Nil)
             => pc'["main"] \in {pc["main"], "m_fatal"}
          /\ pc["main"] = "m_fatal" => pc'["main"] = "m_fatal"]_vars

\* main built and saved an index because Load had found none, and a run's
\* Add then returned nil
C36_Witness ==
    /\ pc["main"] = "serving"
    /\ ret["main"] = [op |-> "Save", err |-> Nil]
    /\ gcs # <<>>
    /\ \E p \in Procs : ret[p] = [op |-> "Add", err |-> Nil]

(***************************************************************************)
(* Further properties of redelivery and restart, checked under             *)
(* SpecRedeliver.                                                          *)
(***************************************************************************)
\* C37 (as claimed): when a process other than the first has completed its
\* start-up and serves, the installed index holds the vector of every Add
\* that returned nil in an earlier process.
C37_AddsSurviveRestart ==
    (pc["main"] = "serving" /\ boot.starts > 1)
    => \A pair \in boot.added :
          /\ index # <<>>
          /\ \E k \in 1..Ntotal(index[1]) : index[1][k] = pair[2]

\* C38 (as claimed): when the verify endpoint answers about an asset whose
\* document carries a recorded leaf index, it does not answer
\* "pending_inclusion" and, unless the store or the log fails, it has asked
\* for the inclusion proof of that leaf.
C38_LoggedIsNeverPending ==
    [][(/\ reply' # reply
        /\ reply'.state = "answered"
        /\ Position(docs, reply'.asset) # <<>>)
       => /\ reply'.status # "pending_inclusion"
          /\ \/ reply'.proofFor = Position(docs, reply'.asset)
             \/ reply'.code = StatusInternalServerError]_vars

(***************************************************************************)
(* Further properties of the auth package, checked under SpecAuth.         *)
(***************************************************************************)
\* C39 (as claimed): when the last call of InitFirebase returned nil, the
\* client singleton is set and GetFirebaseClient returns it and no error.
C39_InitNilMeansClient ==
    ret["main"] = [op |-> "InitFirebase", err |-> Nil]
    => /\ firebaseClient # <<>>
       /\ GetFirebaseClient.err = Nil
       /\ GetFirebaseClient.client = firebaseClient

=============================================================================
